---- MODULE Spec2Model ----
(***************************************************************************)
(* Incident workflow of the Integrated Platform Environment console.       *)
(*                                                                         *)
(* The frontend (IncidentService fetch wrappers, the dashboard's           *)
(* QuickActions and RecentActivity, the incident details page, the System  *)
(* Health page) is translated from its TypeScript source.  The backend     *)
(* route handlers behind the /incidents endpoints are not among the        *)
(* frontend sources; the Server* operators follow the workflow-controller  *)
(* contract of the design document (sections 3 and 4.1 to 4.4).            *)
(*                                                                         *)
(* An async handler is one action up to its first await and one action per *)
(* resumption; the request it awaits is answered by a step of its own, so  *)
(* that handlers, timers and answers interleave as in the browser.         *)
(*                                                                         *)
(* The specifications share the variables:                                 *)
(*   Spec        one browser tab on the dashboard and the incident details *)
(*               page;                                                     *)
(*   ApiSpec     IncidentService calls with arbitrary arguments, awaited   *)
(*               while the backend serves other clients;                   *)
(*   HealthSpec  the System Health page over arbitrary incident lists;     *)
(*   CloseSpec   two tabs with close requests in flight at once;           *)
(*   PollSpec    the pages' mounts and interval timers;                    *)
(*   RecentSpec  Recent Activity over arbitrary fetched lists;             *)
(*   RaceSpec    the dashboard with list and close requests in flight;     *)
(*   RateSpec    the resolution rate of the overview and the Metrics page; *)
(*   ChatSpec    the chat of the dashboard (ChatFairSpec: with the timer   *)
(*               of its popup bound to fire).                              *)
(* The server clock hands out a later timestamp to every stamped mutation. *)
(***************************************************************************)
EXTENDS Integers, Sequences, FiniteSets, TLC

\* ----------------------------------------------------------------- bounds
\* Incidents the store may hold in Spec and ApiSpec.
MaxIncidents == 2
\* Last reading of the server clock (one reading per stamped mutation).
MaxTime == 4
\* Length of the incident lists the System Health page is given in HealthSpec.
MaxList == 2
\* Messages the chat may hold.
MaxMessages == 3
\* Milliseconds the browser clock may advance.
MaxChatTime == 1
\* Length of the lists Recent Activity is given in RecentSpec (more than it
\* keeps), and the latest created_at in them.
MaxFetched == 6
MaxStamp == 3
\* IncidentService calls a browser tab may await at once.
MaxInFlight == 2
\* Timeouts of the execution popup told apart (setTimeout hands out a new
\* handle for every timer it sets).
MaxTimers == 2

\* ------------------------------------------------------------- data model
Severities == {"low", "medium", "high", "critical"}

Statuses == {"open", "analyzing", "in_progress", "resolved"}

HealthStatuses == {"healthy", "degraded", "unhealthy"}

\* The functions every JavaScript object inherits from Object.prototype.
ObjectPrototypeFunctions ==
    {"constructor", "hasOwnProperty", "isPrototypeOf",
     "propertyIsEnumerable", "toLocaleString", "toString", "valueOf",
     "__defineGetter__", "__defineSetter__", "__lookupGetter__", "__lookupSetter__"}

\* Component names of the incidents a list may hold (the field is free
\* text): one that the backend data set names, the name of an inherited
\* function, the name under which an object gives its prototype, and the
\* name of a field of the entries of componentHealth.
Components == {"api-gateway", "constructor", "__proto__", "status"}

ActionIds == {"a1", "a2"}

\* An Incident; the free-text fields that no operation reads are left out.
Incident(id, component, severity, status, created, updated) ==
    [id |-> id, component |-> component, severity |-> severity,
     status |-> status, created_at |-> created, updated_at |-> updated]

\* The value of a thrown call, and of `incident` before it is loaded (null).
NoValue == [none |-> TRUE]

\* obj.field of a JSON body: undefined (here: the default) when absent.
Field(obj, field, default) ==
    IF field \in DOMAIN obj THEN obj[field] ELSE default

Ids(list) == {list[i].id : i \in DOMAIN list}

\* Array.prototype.find by id: the first match, or NoValue (undefined).
RECURSIVE FindFrom(_, _, _)
FindFrom(list, id, i) ==
    IF i > Len(list) THEN NoValue
    ELSE IF list[i].id = id THEN list[i]
    ELSE FindFrom(list, id, i + 1)

Find(list, id) == FindFrom(list, id, 1)

\* --------------------------------------------- backend (design document)
\* An HTTP response: ok is response.ok (a 2xx status); error names the
\* failure ("NetworkError": fetch itself rejected, no response at all).
Response(ok, error, body) == [ok |-> ok, error |-> error, body |-> body]

OkResponse(body) == Response(TRUE, "", body)

ErrResponse(error) == Response(FALSE, error, [detail |-> error])

\* The result of a controller operation: the store and clock after it, and
\* the response sent.
Outcome(st, t, resp) == [store |-> st, now |-> t, resp |-> resp]

\* Validation of a create request (required fields, enumerated severity).
ValidCreate(body) ==
    /\ body.title # ""
    /\ body.component # ""
    /\ body.severity \in Severities

\* Replace the incident with the given id.
Update(st, id, inc) == [i \in DOMAIN st |-> IF st[i].id = id THEN inc ELSE st[i]]

\* Mutant of ServerCreate: the timestamps of the request body are stored.
ServerCreateClientStamps(st, t, up, body) ==
    IF ~up THEN Outcome(st, t, ErrResponse("NetworkError"))
    ELSE IF ~ValidCreate(body) THEN Outcome(st, t, ErrResponse("ValidationError"))
    ELSE LET inc == Incident(Len(st) + 1, body.component, body.severity,
                             "open", body.created_at, body.updated_at)
         IN  Outcome(Append(st, inc), t + 1, OkResponse(inc))

\* create: generated id, status "open", created_at = updated_at = now.
ServerCreate(st, t, up, body) ==
    IF ~up THEN Outcome(st, t, ErrResponse("NetworkError"))
    ELSE IF ~ValidCreate(body) THEN Outcome(st, t, ErrResponse("ValidationError"))
    ELSE LET inc == Incident(Len(st) + 1, body.component, body.severity,
                             "open", t + 1, t + 1)
         IN  Outcome(Append(st, inc), t + 1, OkResponse(inc))

\* list: all incidents.
ServerList(st, t, up) ==
    IF ~up THEN Outcome(st, t, ErrResponse("NetworkError"))
    ELSE Outcome(st, t, OkResponse(st))

\* Mutant of ServerAnalyze: a failed analysis restores the status it found.
ServerAnalyzeRollback(st, t, up, id, llm) ==
    IF ~up THEN Outcome(st, t, ErrResponse("NetworkError"))
    ELSE IF id \notin Ids(st) THEN Outcome(st, t, ErrResponse("NotFoundError"))
    ELSE LET inc == Find(st, id)
             st1 == Update(st, id, [inc EXCEPT !.status = "analyzing"])
         IN  IF llm.failed \/ llm.analysis = ""
             THEN Outcome(st, t, ErrResponse("ExternalServiceError"))
             ELSE Outcome(st1, t, OkResponse([analysis |-> llm.analysis,
                                   recommended_actions |-> llm.actions]))

\* analyze: NotFoundError on an unknown id; otherwise the status becomes
\* "analyzing" and the Analysis Service is invoked.  llm is what the external
\* generative process gave: [failed, analysis, actions].  A failed call, or
\* an empty analysis text, surfaces as "analysis failed"; the status flip is
\* not reverted.
ServerAnalyze(st, t, up, id, llm) ==
    IF ~up THEN Outcome(st, t, ErrResponse("NetworkError"))
    ELSE IF id \notin Ids(st) THEN Outcome(st, t, ErrResponse("NotFoundError"))
    ELSE LET inc == Find(st, id)
             st1 == Update(st, id, [inc EXCEPT !.status = "analyzing"])
         IN  IF llm.failed \/ llm.analysis = ""
             THEN Outcome(st1, t, ErrResponse("ExternalServiceError"))
             ELSE Outcome(st1, t, OkResponse([analysis |-> llm.analysis,
                                   recommended_actions |-> llm.actions]))

\* Mutant of ServerExecuteAction: the status is set but updated_at is not
\* stamped.
ServerExecuteActionNoStamp(st, t, up, id, actionId, executorOk) ==
    IF ~up THEN Outcome(st, t, ErrResponse("NetworkError"))
    ELSE IF id \notin Ids(st) THEN Outcome(st, t, ErrResponse("NotFoundError"))
    ELSE IF executorOk
         THEN LET inc == Find(st, id)
                  upd == [inc EXCEPT !.status = "in_progress"]
              IN  Outcome(Update(st, id, upd), t + 1,
                          OkResponse([success |-> TRUE, message |-> "Action executed"]))
         ELSE Outcome(st, t,
                      OkResponse([success |-> FALSE, message |-> "Action failed"]))

\* executeAction: NotFoundError on an unknown id; the Action Executor is
\* invoked; on success status "in_progress" and updated_at = now; on failure
\* success=false with a message, nothing changed, no error.
ServerExecuteAction(st, t, up, id, actionId, executorOk) ==
    IF ~up THEN Outcome(st, t, ErrResponse("NetworkError"))
    ELSE IF id \notin Ids(st) THEN Outcome(st, t, ErrResponse("NotFoundError"))
    ELSE IF executorOk
         THEN LET inc == Find(st, id)
                  upd == [inc EXCEPT !.status = "in_progress", !.updated_at = t + 1]
              IN  Outcome(Update(st, id, upd), t + 1,
                          OkResponse([success |-> TRUE, message |-> "Action executed"]))
         ELSE Outcome(st, t,
                      OkResponse([success |-> FALSE, message |-> "Action failed"]))

\* Aggregate health of a component (design document 4.3): unhealthy if any
\* unresolved critical incident, else degraded if any unresolved high one,
\* else healthy.
PolicyHealth(st, component) ==
    LET open == {i \in DOMAIN st : st[i].component = component
                                   /\ st[i].status # "resolved"}
    IN  IF \E i \in open : st[i].severity = "critical" THEN "unhealthy"
        ELSE IF \E i \in open : st[i].severity = "high" THEN "degraded"
        ELSE "healthy"

\* Mutant of ServerHealthCheck: the check records its run on the incident
\* (status "in_progress").
ServerHealthCheckMarking(st, t, up, id, serviceOk) ==
    IF ~up THEN Outcome(st, t, ErrResponse("NetworkError"))
    ELSE IF id \notin Ids(st) THEN Outcome(st, t, ErrResponse("NotFoundError"))
    ELSE IF ~serviceOk THEN Outcome(st, t, ErrResponse("ExternalServiceError"))
    ELSE Outcome(Update(st, id, [Find(st, id) EXCEPT !.status = "in_progress"]), t,
                 OkResponse([status |-> PolicyHealth(st, Find(st, id).component),
                             message |-> "health"]))

\* healthCheck: NotFoundError on an unknown id; read-only.
ServerHealthCheck(st, t, up, id, serviceOk) ==
    IF ~up THEN Outcome(st, t, ErrResponse("NetworkError"))
    ELSE IF id \notin Ids(st) THEN Outcome(st, t, ErrResponse("NotFoundError"))
    ELSE IF ~serviceOk THEN Outcome(st, t, ErrResponse("ExternalServiceError"))
    ELSE Outcome(st, t, OkResponse([status |-> PolicyHealth(st, Find(st, id).component),
                                    message |-> "health"]))

\* close: NotFoundError on an unknown id; status "resolved", updated_at = now;
\* a second close is accepted.
ServerClose(st, t, up, id) ==
    IF ~up THEN Outcome(st, t, ErrResponse("NetworkError"))
    ELSE IF id \notin Ids(st) THEN Outcome(st, t, ErrResponse("NotFoundError"))
    ELSE LET inc == Find(st, id)
             upd == [inc EXCEPT !.status = "resolved", !.updated_at = t + 1]
         IN  Outcome(Update(st, id, upd), t + 1, OkResponse(upd))

\* ------------------------------------------------------- IncidentService
\* What an awaited service call gives its caller: a value, or a thrown Error.
Returned(v) == [threw |-> FALSE, message |-> "", value |-> v]

Threw(m) == [threw |-> TRUE, message |-> m, value |-> NoValue]

\* await fetch(...) rejects when no response arrives; the rejection passes
\* through the wrapper to its caller.
FetchRejected(resp) == resp.error = "NetworkError"

\* Mutant of createIncident: the response.ok check is missing.
createIncidentNoOkCheck(resp) ==
    IF FetchRejected(resp) THEN Threw("fetch failed")
    ELSE Returned(resp.body)

createIncident(resp) ==
    IF FetchRejected(resp) THEN Threw("fetch failed")
    ELSE IF ~resp.ok THEN Threw("Failed to create incident")
    ELSE Returned(resp.body)

getIncidents(resp) ==
    IF FetchRejected(resp) THEN Threw("fetch failed")
    ELSE IF ~resp.ok THEN Threw("Failed to fetch incidents")
    ELSE Returned(resp.body)

\* Mutant of analyzeIncident: the response.ok check is missing.
analyzeIncidentNoOkCheck(resp) ==
    IF FetchRejected(resp) THEN Threw("fetch failed")
    ELSE Returned(resp.body)

analyzeIncident(resp) ==
    IF FetchRejected(resp) THEN Threw("fetch failed")
    ELSE IF ~resp.ok THEN Threw("Failed to analyze incident")
    ELSE Returned(resp.body)

\* Mutant of executeAction: a body with success=false is thrown as an error.
executeActionThrowOnFailure(resp) ==
    IF FetchRejected(resp) THEN Threw("fetch failed")
    ELSE IF ~resp.ok \/ ~resp.body.success THEN Threw("Failed to execute action")
    ELSE Returned(resp.body)

executeAction(resp) ==
    IF FetchRejected(resp) THEN Threw("fetch failed")
    ELSE IF ~resp.ok THEN Threw("Failed to execute action")
    ELSE Returned(resp.body)

getHealthCheck(resp) ==
    IF FetchRejected(resp) THEN Threw("fetch failed")
    ELSE IF ~resp.ok THEN Threw("Failed to get health check")
    ELSE Returned(resp.body)

\* Mutant of closeIncident: the response.ok check is missing.
closeIncidentNoOkCheck(resp) ==
    IF FetchRejected(resp) THEN Threw("fetch failed")
    ELSE Returned(resp.body)

closeIncident(resp) ==
    IF FetchRejected(resp) THEN Threw("fetch failed")
    ELSE IF ~resp.ok THEN Threw("Failed to close incident")
    ELSE Returned(resp.body)

\* ------------------------------------------------------------------ state
VARIABLES
    store,        \* Incident Store: the incidents, in creation order
    now,          \* server clock: the last timestamp handed out
    closedIds,    \* ids for which a closeIncident call has returned
    threads,      \* the IncidentService calls awaited, in the order begun
    page,         \* the route the browser tab shows
    timers,       \* the components whose setInterval timer is armed
    objectPrototype, \* what fetchMetrics of System Health has added to Object.prototype
    alert,        \* the window.alert text on screen ("" when none)
    overviewMetrics,    \* IncidentOverview: metrics
    isCreatingIncident, \* QuickActions: isCreatingIncident
    raIncidents,  \* RecentActivity: incidents
    isClosing,    \* RecentActivity: the ids isClosing maps to true
    detailsId,    \* IncidentDetails: the route parameter (0: page not open)
    incident,     \* IncidentDetails: incident (NoValue: null)
    analysis,     \* IncidentDetails: analysis
    actions,      \* IncidentDetails: actions
    healthStatus, \* IncidentDetails: healthStatus
    toast,        \* IncidentDetails: toast (NoValue: null)
    detailsIsLoading, \* IncidentDetails: isLoading
    metrics,      \* SystemHealth: metrics
    metricsIncidents, \* Metrics page: incidents
    loading,      \* Metrics page: loading
    calls,        \* the service calls of the handler run that has just ended
    chatMounted,  \* ChatInterface: the component is mounted
    messages,     \* ChatInterface: messages
    input,        \* ChatInterface: input
    isLoading,    \* ChatInterface: isLoading
    showClearConfirm, \* ChatInterface: showClearConfirm
    executionPopup,   \* ChatInterface: executionPopup
    popup,        \* ExecutionPopup: status, splunkLink, pending timer (NoValue: not mounted)
    chatStorage,  \* localStorage 'chatMessages' (NoValue: no such item)
    queries,      \* the POST /query requests in flight, in the order sent
    chatNow,      \* the browser clock Date.now() reads
    chatEvent     \* ChatSpec: the handler run last, and the reply it received

serverVars == <<store, now>>

apiVars == <<closedIds>>

pageVars == <<page, timers, objectPrototype>>

\* The components of the dashboard page (Home), the chat apart.
homeVars == <<overviewMetrics, isCreatingIncident, raIncidents, isClosing>>

detailsVars == <<detailsId, incident, analysis, actions, healthStatus, toast,
                 detailsIsLoading>>

\* The System Health page and the Metrics page.
boardVars == <<metrics, metricsIncidents, loading>>

uiVars == <<pageVars, homeVars, detailsVars, boardVars>>

chatVars == <<chatMounted, messages, input, isLoading, showClearConfirm,
              executionPopup, popup, chatStorage, queries, chatNow, chatEvent>>

nonChatVars == <<serverVars, apiVars, threads, alert, uiVars, calls>>

vars == <<nonChatVars, chatVars>>

\* A service call a handler issued, and whether it threw.
Issued(op, id, res) ==
    [op |-> op, id |-> id, threw |-> res.threw, message |-> res.message]

Range(seq) == {seq[i] : i \in DOMAIN seq}

Remove(seq, i) == SubSeq(seq, 1, i - 1) \o SubSeq(seq, i + 1, Len(seq))

\* ------------------------------------------------------ System Health page
\* lastIncident: '' until an incident of the component has been seen.
NoDate == 0

EmptyMap == [c \in {} |-> NoValue]

PutMap(m, k, v) == [x \in DOMAIN m \cup {k} |-> IF x = k THEN v ELSE m[x]]

\* The status a not-resolved incident of the given severity assigns, if any.
SeverityStatus(severity, current) ==
    IF severity = "critical" THEN "unhealthy"
    ELSE IF severity = "high" THEN "degraded"
    ELSE current

\* Object.prototype as the document loads it, as far as fetchMetrics can
\* change it: incidents (TRUE: the member exists, and is NaN), lastIncident
\* and status (NoDate, "": no such member).
CleanPrototype == [incidents |-> FALSE, lastIncident |-> NoDate, status |-> ""]

\* componentHealth is a plain object: componentHealth[name], when the
\* object has no entry of that name, is what Object.prototype gives.
\*   "prototype"  Object.prototype itself;
\*   "function"   one of its functions;
\*   "string"     a status or a lastIncident that an earlier update wrote
\*                to Object.prototype;
\*   "falsy"      undefined, or the NaN an earlier update left under
\*                incidents.
Inherited(proto, name) ==
    IF name = "__proto__" THEN "prototype"
    ELSE IF name \in ObjectPrototypeFunctions THEN "function"
    ELSE IF name = "status" /\ proto.status # "" THEN "string"
    ELSE IF name = "lastIncident" /\ proto.lastIncident # NoDate THEN "string"
    ELSE "falsy"

\* The three updates of one iteration applied to an entry of componentHealth.
UpdateEntry(e0, inc) ==
    LET e1 == [e0 EXCEPT !.incidents = @ + 1]
        e2 == IF e1.lastIncident = NoDate \/ inc.created_at > e1.lastIncident
              THEN [e1 EXCEPT !.lastIncident = inc.created_at]
              ELSE e1
    IN  IF inc.status # "resolved"
        THEN [e2 EXCEPT !.status = SeverityStatus(inc.severity, @)]
        ELSE e2

\* The same three updates applied to Object.prototype: incidents++ of a
\* missing member, or of NaN, leaves NaN.
UpdatePrototype(proto, inc) ==
    [incidents |-> TRUE,
     lastIncident |-> IF proto.lastIncident = NoDate \/ inc.created_at > proto.lastIncident
                      THEN inc.created_at ELSE proto.lastIncident,
     status |-> IF inc.status # "resolved" /\ SeverityStatus(inc.severity, "") # ""
                THEN SeverityStatus(inc.severity, "") ELSE proto.status]

\* One iteration of incidents.forEach in fetchMetrics, on the object being
\* built (own), Object.prototype (proto) and whether an iteration has thrown.
\* An entry is created when the lookup is falsy.  A truthy lookup that is
\* not an entry takes the three updates itself: Object.prototype keeps them,
\* a function keeps them where no lookup of componentHealth finds them, and
\* a string throws the TypeError of strict mode at incidents++.
ComponentHealthStep(st, inc) ==
    IF st.threw THEN st
    ELSE IF inc.component \in DOMAIN st.own
    THEN [st EXCEPT !.own = PutMap(@, inc.component, UpdateEntry(@[inc.component], inc))]
    ELSE IF Inherited(st.proto, inc.component) = "falsy"
    THEN [st EXCEPT !.own = PutMap(@, inc.component,
                  UpdateEntry([status |-> "healthy", incidents |-> 0,
                               lastIncident |-> NoDate], inc))]
    ELSE IF Inherited(st.proto, inc.component) = "prototype"
    THEN [st EXCEPT !.proto = UpdatePrototype(@, inc)]
    ELSE IF Inherited(st.proto, inc.component) = "function"
    THEN st
    ELSE [st EXCEPT !.threw = TRUE]

RECURSIVE ComponentHealthFrom(_, _, _)
ComponentHealthFrom(st, list, i) ==
    IF i > Len(list) THEN st
    ELSE ComponentHealthFrom(ComponentHealthStep(st, list[i]), list, i + 1)

\* The forEach over the list fetched, componentHealth starting as {}.
ComponentHealth(proto, list) ==
    ComponentHealthFrom([own |-> EmptyMap, proto |-> proto, threw |-> FALSE], list, 1)

\* The object fetchMetrics hands to setMetrics.
HealthMetrics(componentHealth, list) ==
    [componentHealth |-> componentHealth,
     totalIncidents |-> Len(list),
     activeIncidents |-> Cardinality({i \in DOMAIN list : list[i].status # "resolved"}),
     criticalIncidents |-> Cardinality({i \in DOMAIN list :
                               list[i].severity = "critical" /\ list[i].status # "resolved"})]

InitialMetrics ==
    [componentHealth |-> EmptyMap, totalIncidents |-> 0,
     activeIncidents |-> 0, criticalIncidents |-> 0]

\* ------------------------------------- IncidentOverview and Metrics page
\* The percentages k + 0.5 that (part / total) * 100 falls short of in
\* double arithmetic (14.499999999999998 for 29 / 200, 57.49999999999999
\* for 23 / 40): Math.round of them is k.  The other 96 of the hundred
\* half-way percentages come out at k + 0.5 or above, and round to k + 1.
HalvesRoundedDown == {14, 28, 56, 57}

\* Math.round((part / total) * 100), for total > 0, the quotient and the
\* product being doubles.  Away from the half-way percentages the rounding
\* error of the product (below 1e-13) does not reach the next integer.
RoundedPercent(part, total) ==
    LET twice == (200 * part) \div total
        halfway == (200 * part) % total = 0 /\ twice % 2 = 1
    IN  IF halfway /\ (twice \div 2) \in HalvesRoundedDown
        THEN twice \div 2
        ELSE (200 * part + total) \div (2 * total)

\* IncidentOverview: the metrics fetchMetrics computes from the list.
OverviewMetrics(list) ==
    LET active == {i \in DOMAIN list : list[i].status # "resolved"}
        resolved == {i \in DOMAIN list : list[i].status = "resolved"}
        severe == {i \in active : list[i].severity \in {"critical", "high"}}
        health == 100 - 10 * Cardinality(severe)
    IN  [activeIncidents |-> Cardinality(active),
         systemHealth    |-> IF health < 0 THEN 0 ELSE health,
         avgResponseTime |-> 15,
         resolutionRate  |-> IF Len(list) > 0
                             THEN RoundedPercent(Cardinality(resolved), Len(list))
                             ELSE 100]

InitialOverview ==
    [activeIncidents |-> 0, systemHealth |-> 0, avgResponseTime |-> 0,
     resolutionRate |-> 0]

\* A number as JavaScript displays it: NaN, or a value.
Number(n) == [nan |-> FALSE, value |-> n]

NaN == [nan |-> TRUE, value |-> 0]

\* Metrics page, Summary Statistics: the Resolution Rate rendered from the
\* incidents it holds, Math.round((resolved / incidents.length) * 100); 0 / 0
\* is NaN.
MetricsResolutionRate(list) ==
    IF Len(list) = 0 THEN NaN
    ELSE Number(RoundedPercent(
                  Cardinality({i \in DOMAIN list : list[i].status = "resolved"}),
                  Len(list)))

\* ------------------------------------------------- dashboard: RecentActivity
\* How many incidents RecentActivity keeps.
RecentLimit == 5

\* Array.prototype.sort with (a, b) => b.created_at - a.created_at: a stable
\* sort, newest first.
RECURSIVE InsertDesc(_, _)
InsertDesc(sorted, x) ==
    IF sorted = <<>> THEN <<x>>
    ELSE IF Head(sorted).created_at >= x.created_at
         THEN <<Head(sorted)>> \o InsertDesc(Tail(sorted), x)
         ELSE <<x>> \o sorted

RECURSIVE SortDescFrom(_, _, _)
SortDescFrom(sorted, list, i) ==
    IF i > Len(list) THEN sorted
    ELSE SortDescFrom(InsertDesc(sorted, list[i]), list, i + 1)

\* Mutant of SortByCreatedDesc: the list is kept in the order received.
SortByCreatedDescSkipped(list) == list

SortByCreatedDesc(list) == SortDescFrom(<<>>, list, 1)

\* slice(0, n)
Slice(list, n) == SubSeq(list, 1, IF Len(list) < n THEN Len(list) ELSE n)

\* The Close button is rendered for a displayed incident whose displayed
\* status is not 'resolved'; it is disabled while isClosing[id].
CloseButtonShown(id) ==
    \E k \in DOMAIN raIncidents :
        raIncidents[k].id = id /\ raIncidents[k].status # "resolved"

\* The local update after a successful close.
MarkResolved(list, id) ==
    [k \in DOMAIN list |->
        IF list[k].id = id THEN [list[k] EXCEPT !.status = "resolved"] ELSE list[k]]

\* ------------------------------------------------------ chat: strings
\* A JavaScript string is a sequence of tokens: words, the blank " ", the
\* line break "\n", the code fence "~~~" and the prefix "command:".
Str(tokens) == [chars |-> tokens]

Whitespace == {" ", "\n"}

RECURSIVE TrimStart(_)
TrimStart(s) ==
    IF s # <<>> /\ Head(s) \in Whitespace THEN TrimStart(Tail(s)) ELSE s

RECURSIVE TrimEnd(_)
TrimEnd(s) ==
    IF s # <<>> /\ s[Len(s)] \in Whitespace
    THEN TrimEnd(SubSeq(s, 1, Len(s) - 1)) ELSE s

\* String.prototype.trim
Trim(s) == TrimEnd(TrimStart(s))

\* String.prototype.startsWith, for a one-token prefix
StartsWith(s, prefix) == s # <<>> /\ Head(s) = prefix

\* s.replace(token, ''): the first occurrence is removed
RECURSIVE RemoveFirst(_, _)
RemoveFirst(s, token) ==
    IF s = <<>> THEN <<>>
    ELSE IF Head(s) = token THEN Tail(s)
    ELSE <<Head(s)>> \o RemoveFirst(Tail(s), token)

\* s.replace(/\n$/, '')
StripFinalNewline(s) ==
    IF s # <<>> /\ s[Len(s)] = "\n" THEN SubSeq(s, 1, Len(s) - 1) ELSE s

\* The fenced code blocks of a markdown text, in order: what ReactMarkdown
\* hands, one by one, to the code component as children.
RECURSIVE CodeBlocksFrom(_, _, _, _)
CodeBlocksFrom(s, i, inside, acc) ==
    IF i > Len(s) THEN acc
    ELSE IF s[i] = "~~~"
         THEN IF inside THEN CodeBlocksFrom(s, i + 1, FALSE, acc)
              ELSE CodeBlocksFrom(s, i + 1, TRUE, Append(acc, <<>>))
    ELSE IF inside
         THEN CodeBlocksFrom(s, i + 1, TRUE,
                             [acc EXCEPT ![Len(acc)] = Append(@, s[i])])
    ELSE CodeBlocksFrom(s, i + 1, FALSE, acc)

CodeBlocks(content) ==
    IF "chars" \in DOMAIN content THEN CodeBlocksFrom(content.chars, 1, FALSE, <<>>)
    ELSE <<>>

\* markdownComponents.code: what is rendered for a block.
CodeContent(children) == StripFinalNewline(children)

IsCommand(children) == StartsWith(CodeContent(children), "command:")

CommandContent(children) ==
    IF IsCommand(children) THEN Trim(RemoveFirst(CodeContent(children), "command:"))
    ELSE CodeContent(children)

\* The code component renders the Run button for the block.
RunShown(children) == IsCommand(children)

\* ------------------------------------------------- chat: ChatInterface
\* undefined
Undefined == NoValue

\* Number.prototype.toString: the decimal digits of n
NumberToString(n) == [digits |-> n]

Message(id, type, content, sources) ==
    [id |-> id, type |-> type, content |-> content, sources |-> sources]

\* The properties of a message that may be undefined.
OptionalFields == {"content", "sources"}

\* JSON.stringify of the messages: a property whose value is undefined is
\* left out of the text.
Stringify(msgs) ==
    [json |-> [i \in DOMAIN msgs |->
                 [f \in {"id", "type"} \cup
                        {g \in OptionalFields : msgs[i][g] # Undefined} |-> msgs[i][f]]]]

\* JSON.parse of such a text: a property left out reads as undefined.
Parse(text) ==
    [i \in DOMAIN text.json |->
        Message(Field(text.json[i], "id", Undefined),
                Field(text.json[i], "type", Undefined),
                Field(text.json[i], "content", Undefined),
                Field(text.json[i], "sources", Undefined))]

\* The content of the message the catch of handleSubmit appends.
ErrorText == Str(<<"Sorry, there was an error processing your request.">>)

\* What the user may have typed.
Inputs == {<<>>, <<" ">>, <<" ", "logs", "\n">>}

\* An answer of the assistant: a text with two command blocks and a code
\* block that only mentions the prefix.
BlocksResult ==
    Str(<<"Try", "~~~", "command:", " ", "ls", "\n", "~~~",
          "~~~", "echo", " ", "command:", "\n", "~~~",
          "~~~", "command:", "pwd", "\n", "~~~">>)

SomeSources == [list |-> <<[source |-> "runbook.md", score |-> 1]>>]

\* What may come back for a POST /query: fetch rejects, or a response with a
\* status and a body that is JSON (parsed here) or is not.
QueryReplies ==
    {[rejected |-> TRUE,  ok |-> FALSE, json |-> FALSE, body |-> NoValue],
     [rejected |-> FALSE, ok |-> TRUE,  json |-> TRUE,
      body |-> [result |-> BlocksResult, sources |-> SomeSources]],
     [rejected |-> FALSE, ok |-> FALSE, json |-> TRUE,
      body |-> [detail |-> "Internal Server Error"]],
     [rejected |-> FALSE, ok |-> FALSE, json |-> FALSE, body |-> NoValue]}

NoPopup == [show |-> FALSE, command |-> <<>>]

\* encodeURIComponent
EncodeURIComponent(s) ==
    [i \in DOMAIN s |-> IF s[i] = " " THEN "%20"
                        ELSE IF s[i] = "\n" THEN "%0A"
                        ELSE IF s[i] = "command:" THEN "command%3A"
                        ELSE s[i]]

SplunkLink(command) ==
    <<"https://splunk.example.com/search?q=search%20command%3D">>
        \o EncodeURIComponent(command) \o <<"&earliest=-1h&latest=now">>

\* The chat handler run last (name), whether the one run before it was
\* handleClearChat (prev), the reply that handler received, and the code
\* block whose Run button opened the popup that is showing.
NoEvent == [name |-> "none", prev |-> "none", reply |-> NoValue, block |-> <<>>]

Event(name, reply, block) ==
    [name |-> name, prev |-> IF chatEvent.name = "clear" THEN "clear" ELSE "none",
     reply |-> reply, block |-> block]

\* A POST /query request handleSubmit has sent and awaits.  The fetch is
\* given no signal and no timeout: the request stays in flight when the
\* component that sent it unmounts (live becomes FALSE), and only the
\* unloading of the document ends it.
Query(text) == [query |-> text, live |-> TRUE]

\* The requests in flight once ChatInterface has unmounted.
Abandoned(qs) == [i \in DOMAIN qs |-> [qs[i] EXCEPT !.live = FALSE]]

\* ChatInterface mounts (with Home) with its initial state; the load effect
\* reads the saved messages, and the save effect stores what is then
\* displayed.  In flight are the requests kept from before the mount.
ChatMount(kept) ==
    /\ chatMounted' = TRUE
    /\ messages' = IF chatStorage # NoValue THEN Parse(chatStorage) ELSE <<>>
    /\ chatStorage' = Stringify(messages')
    /\ input' = <<>>
    /\ isLoading' = FALSE
    /\ showClearConfirm' = FALSE
    /\ executionPopup' = NoPopup
    /\ popup' = NoValue
    /\ queries' = kept
    /\ chatEvent' = Event("mount", NoValue, <<>>)
    /\ UNCHANGED chatNow

\* ChatInterface unmounts (with Home): the component state is gone, and a
\* response that arrives later sets the state of no mounted component.
ChatUnmount(kept) ==
    /\ chatMounted' = FALSE
    /\ messages' = <<>>
    /\ input' = <<>>
    /\ isLoading' = FALSE
    /\ showClearConfirm' = FALSE
    /\ executionPopup' = NoPopup
    /\ popup' = NoValue
    /\ queries' = kept
    /\ chatEvent' = Event("unmount", NoValue, <<>>)
    /\ UNCHANGED <<chatStorage, chatNow>>

\* onChange of the textarea.
SetInput(text) ==
    /\ chatMounted
    /\ input # text
    /\ input' = text
    /\ UNCHANGED <<nonChatVars, chatMounted, messages, isLoading,
                   showClearConfirm, executionPopup, popup, chatStorage, queries,
                   chatNow, chatEvent>>

\* Time passes on the browser clock.
ChatTick ==
    /\ chatNow < MaxChatTime
    /\ chatNow' = chatNow + 1
    /\ UNCHANGED <<nonChatVars, chatMounted, messages, input, isLoading,
                   showClearConfirm, executionPopup, popup, chatStorage, queries,
                   chatEvent>>

\* handleSubmit up to its await: the user message is appended, the input is
\* emptied, the request is sent; the save effect stores the new list.
HandleSubmit ==
    /\ chatMounted
    /\ Trim(input) # <<>>
    /\ ~isLoading
    /\ Len(messages) + 2 <= MaxMessages
    /\ Len(queries) < MaxInFlight
    /\ messages' = Append(messages,
                          Message(NumberToString(chatNow), "user", Str(Trim(input)), Undefined))
    /\ input' = <<>>
    /\ isLoading' = TRUE
    /\ queries' = Append(queries, Query(Str(Trim(input))))
    /\ chatStorage' = Stringify(messages')
    /\ chatEvent' = Event("submit", NoValue, chatEvent.block)
    /\ UNCHANGED <<nonChatVars, chatMounted, showClearConfirm,
                   executionPopup, popup, chatNow>>

\* The message handleSubmit appends once the awaited fetch settles: the
\* assistant's answer built from the parsed body, or, when fetch rejected or
\* response.json() threw, the error message of the catch.
ReplyMessage(reply, t) ==
    IF reply.rejected \/ ~reply.json
    THEN Message(NumberToString(t + 1), "assistant", ErrorText, Undefined)
    ELSE Message(NumberToString(t + 1), "assistant",
                 Field(reply.body, "result", Undefined),
                 Field(reply.body, "sources", Undefined))

\* handleSubmit after its await, for request i.  The instance that sent it
\* being mounted, the message is appended and isLoading reset (finally), and
\* the save effect stores the new list.  Otherwise setMessages and
\* setIsLoading are calls on an unmounted component: nothing is set, no
\* effect runs.
QueryReturns(i, reply) ==
    /\ i \in DOMAIN queries
    /\ queries' = Remove(queries, i)
    /\ IF queries[i].live
       THEN /\ messages' = Append(messages, ReplyMessage(reply, chatNow))
            /\ isLoading' = FALSE
            /\ chatStorage' = Stringify(messages')
            /\ chatEvent' = Event("reply", reply, chatEvent.block)
       ELSE UNCHANGED <<messages, isLoading, chatStorage, chatEvent>>
    /\ UNCHANGED <<nonChatVars, chatMounted, input, showClearConfirm,
                   executionPopup, popup, chatNow>>

\* The Clear Chat button of the header.  The button stays focusable under
\* the modals, which only cover it: its onClick tests nothing.
ClickClearChat ==
    /\ chatMounted
    /\ showClearConfirm' = TRUE
    /\ chatEvent' = Event("askClear", NoValue, chatEvent.block)
    /\ UNCHANGED <<nonChatVars, chatMounted, messages, input, isLoading,
                   executionPopup, popup, chatStorage, queries, chatNow>>

\* Cancel in the confirmation modal.
CancelClear ==
    /\ showClearConfirm
    /\ showClearConfirm' = FALSE
    /\ chatEvent' = Event("cancelClear", NoValue, chatEvent.block)
    /\ UNCHANGED <<nonChatVars, chatMounted, messages, input, isLoading,
                   executionPopup, popup, chatStorage, queries, chatNow>>

\* Mutant of HandleClearChat: the displayed list is emptied and what is stored
\* is left as it was.
HandleClearChatDisplayOnly ==
    /\ showClearConfirm
    /\ messages' = <<>>
    /\ showClearConfirm' = FALSE
    /\ chatEvent' = Event("clear", NoValue, chatEvent.block)
    /\ UNCHANGED <<nonChatVars, chatMounted, input, isLoading,
                   executionPopup, popup, chatStorage, queries, chatNow>>

\* handleClearChat: the list is emptied and the item removed; the list having
\* changed, the save effect then stores the empty list.
HandleClearChat ==
    /\ showClearConfirm
    /\ messages' = <<>>
    /\ chatStorage' = Stringify(messages')
    /\ showClearConfirm' = FALSE
    /\ chatEvent' = Event("clear", NoValue, chatEvent.block)
    /\ UNCHANGED <<nonChatVars, chatMounted, input, isLoading,
                   executionPopup, popup, queries, chatNow>>

\* The handles of the popup's timeouts; popup.timer is the handle of the
\* timeout that is pending, 0 when none is.
TimerHandles == 1 .. MaxTimers

\* setTimeout: the handle of the new timeout, another one than the handle h
\* of the timeout just cleared.
SetTimeout(h) == (h % MaxTimers) + 1

\* The Run button of block b of message m: window.handleExecuteCommand sets
\* executionPopup.  A popup not yet showing mounts in its 'executing' state
\* and sets its timer.  A popup that is showing stays mounted with the
\* status and the link it has; its effect runs again, only when the command
\* is another one: the cleanup clears the pending timeout, which never
\* fires, and a new timeout of 2000 ms is set.  The buttons stay focusable
\* under the two modals.
RunCommand(m, b) ==
    /\ chatMounted
    /\ m \in DOMAIN messages
    /\ b \in DOMAIN CodeBlocks(messages[m].content)
    /\ RunShown(CodeBlocks(messages[m].content)[b])
    /\ LET command == CommandContent(CodeBlocks(messages[m].content)[b])
       IN  /\ executionPopup' = [show |-> TRUE, command |-> command]
           /\ popup' = IF ~executionPopup.show
                       THEN [status |-> "executing", splunkLink |-> <<>>,
                             timer |-> SetTimeout(0)]
                       ELSE IF command # executionPopup.command
                       THEN [popup EXCEPT !.timer = SetTimeout(popup.timer)]
                       ELSE popup
    /\ chatEvent' = Event("run", NoValue, CodeBlocks(messages[m].content)[b])
    /\ UNCHANGED <<nonChatVars, chatMounted, messages, input, isLoading,
                   showClearConfirm, chatStorage, queries, chatNow>>

\* The popup's timeout h, pending since 2000 ms, fires.
PopupTimer(h) ==
    /\ popup # NoValue
    /\ popup.timer = h
    /\ popup' = [status |-> "completed", splunkLink |-> SplunkLink(executionPopup.command),
                 timer |-> 0]
    /\ chatEvent' = Event("completed", NoValue, chatEvent.block)
    /\ UNCHANGED <<nonChatVars, chatMounted, messages, input, isLoading,
                   showClearConfirm, executionPopup, chatStorage, queries, chatNow>>

\* The popup's close button: the popup unmounts and its timer is cleared.
ClosePopup ==
    /\ executionPopup.show
    /\ executionPopup' = NoPopup
    /\ popup' = NoValue
    /\ chatEvent' = Event("closePopup", NoValue, <<>>)
    /\ UNCHANGED <<nonChatVars, chatMounted, messages, input, isLoading,
                   showClearConfirm, chatStorage, queries, chatNow>>

\* ------------------------------------------------ service calls in flight
\* An async handler stops at each await of an IncidentService call and goes
\* on when the call settles; between the two, other handlers run.  A thread
\* is one run of such a handler: the component function it runs (kind), the
\* call it awaits (op, id, arg), whether the response has arrived (stage,
\* resp; stage "alert": the handler is inside window.alert, which returns
\* when the user dismisses it), the calls it has settled so far (calls),
\* what it carries from one
\* call to the next (carry), and what has become of the component that started
\* it (fate):
\*   "live"    mounted: the continuation sets its state;
\*   "orphan"  unmounted by a client-side navigation: the continuation runs,
\*             its state updates are dropped;
\*   "dead"    no continuation is left that could be observed (the document
\*             was reloaded, or what remains only reads): the request, if it
\*             was sent, may still reach the server.
Thread(kind, op, id, arg) ==
    [kind |-> kind, op |-> op, id |-> id, arg |-> arg, stage |-> "sent",
     resp |-> NoValue, fate |-> "live", calls |-> <<>>, carry |-> "",
     seen |-> NoValue,
     closed |-> IF op = "getIncidents" THEN closedIds ELSE {}]

ListRequest(kind) == Thread(kind, "getIncidents", 0, NoValue)

\* The handler goes on to its next awaited call.
NextCall(t, op, id, settled) ==
    [t EXCEPT !.op = op, !.id = id, !.arg = NoValue, !.stage = "sent",
              !.resp = NoValue, !.calls = settled,
              !.closed = IF op = "getIncidents" THEN closedIds ELSE {}]

Sent(i, op) ==
    /\ i \in DOMAIN threads
    /\ threads[i].stage = "sent"
    /\ threads[i].op = op

Answered(i, kind) ==
    /\ i \in DOMAIN threads
    /\ threads[i].stage = "answered"
    /\ threads[i].kind = kind

\* The endpoints that change the store.
Mutating == {"createIncident", "analyzeIncident", "executeAction", "closeIncident"}

\* A thread whose continuation does more than set the state of its
\* component: handleCreateIncident (alert, reload), handleCloseIncident
\* (alert, refreshIncidents), fetchMetrics of System Health (its forEach
\* can write to Object.prototype), and fetchIncidentDetails before it posts
\* the analyze request.
OutlivesComponent(t) ==
    \/ t.kind \in {"create", "close", "health"}
    \/ t.kind = "details" /\ t.op = "getIncidents"

Undelivered(t) == t.stage \in {"sent", "read"} /\ t.op \in Mutating

RECURSIVE Unmount(_)
\* The threads left when the page is left through a Link: the component
\* state their continuations would set is gone.
Unmount(ts) ==
    IF ts = <<>> THEN <<>>
    ELSE LET t == Head(ts)
         IN  IF t.fate # "dead" /\ OutlivesComponent(t)
             THEN <<[t EXCEPT !.fate = "orphan"]>> \o Unmount(Tail(ts))
             ELSE IF Undelivered(t)
             THEN <<[t EXCEPT !.fate = "dead"]>> \o Unmount(Tail(ts))
             ELSE Unmount(Tail(ts))

RECURSIVE Unload(_)
\* The threads left when the document is reloaded: no continuation runs.
Unload(ts) ==
    IF ts = <<>> THEN <<>>
    ELSE IF Undelivered(Head(ts))
         THEN <<[Head(ts) EXCEPT !.fate = "dead"]>> \o Unload(Tail(ts))
         ELSE Unload(Tail(ts))

\* ------------------------------------------------------------------ pages
Pages == {"dashboard", "details", "health", "metrics"}

\* The setInterval timers the components of a page arm in their mount
\* effects (the Metrics page arms none).
PageTimers(p) ==
    IF p = "dashboard" THEN {"overview", "recent"}
    ELSE IF p = "health" THEN {"health"}
    ELSE {}

\* The calls the mount effects of a page begin: Home renders IncidentOverview
\* and RecentActivity, each fetching the list.
MountRequests(p, id) ==
    IF p = "dashboard" THEN <<ListRequest("overview"), ListRequest("recent")>>
    ELSE IF p = "details" THEN <<Thread("details", "getIncidents", id, NoValue)>>
    ELSE IF p = "health" THEN <<ListRequest("health")>>
    ELSE IF p = "metrics" THEN <<ListRequest("metrics")>>
    ELSE <<>>

\* Page p mounts, every component with its initial state, its timers armed
\* and its mount effects begun; the page shown before is unmounted, its
\* timers cleared; kept are the threads, and keptQueries the chat requests,
\* that survive it.  ChatInterface is a component of Home.
Mount(p, id, kept, keptQueries) ==
    /\ Len(kept) + Len(MountRequests(p, id)) <= MaxInFlight
    /\ page' = p
    /\ timers' = PageTimers(p)
    /\ threads' = kept \o MountRequests(p, id)
    /\ overviewMetrics' = InitialOverview
    /\ isCreatingIncident' = FALSE
    /\ raIncidents' = <<>>
    /\ isClosing' = {}
    /\ detailsId' = IF p = "details" THEN id ELSE 0
    /\ incident' = NoValue
    /\ analysis' = ""
    /\ actions' = <<>>
    /\ healthStatus' = ""
    /\ toast' = NoValue
    /\ detailsIsLoading' = FALSE
    /\ metrics' = InitialMetrics
    /\ metricsIncidents' = <<>>
    /\ loading' = TRUE
    /\ IF p = "dashboard" THEN ChatMount(keptQueries)
       ELSE IF chatMounted THEN ChatUnmount(keptQueries)
       ELSE /\ queries' = keptQueries
            /\ UNCHANGED <<chatMounted, messages, input, isLoading, showClearConfirm,
                           executionPopup, popup, chatStorage, chatNow, chatEvent>>

\* A client-side navigation (a Link, the back button): the document, and
\* with it Object.prototype and the chat requests in flight, stays.
Navigate(p, id) ==
    /\ alert = ""
    /\ Mount(p, id, Unmount(threads), Abandoned(queries))
    /\ calls' = <<>>
    /\ UNCHANGED <<serverVars, apiVars, alert, objectPrototype>>

\* window.location.reload(): the page shown is loaded again, in a new
\* document; the fetches of the old one are cancelled.
Reload(kept) ==
    /\ Mount(page, detailsId, Unload(kept), <<>>)
    /\ objectPrototype' = CleanPrototype

OpenDashboard == page # "dashboard" /\ Navigate("dashboard", 0)

\* The System Health card of QuickActions, or the navigation bar.
OpenHealth == page # "health" /\ Navigate("health", 0)

OpenMetrics == page # "metrics" /\ Navigate("metrics", 0)

\* The Link around an incident displayed by RecentActivity.
OpenDetails(id) ==
    /\ page = "dashboard"
    /\ id \in Ids(raIncidents)
    /\ Navigate("details", id)

\* The route parameter of /incidents/new: the string 'new', which is the id
\* of no incident (the backend assigns the ids).
NewRoute == -1

\* The New Incident link of the navigation bar, rendered on every page:
\* /incidents/new is served by IncidentDetails with incidentId 'new'.
OpenNewIncident ==
    /\ ~(page = "details" /\ detailsId = NewRoute)
    /\ Navigate("details", NewRoute)

\* The user dismisses the alert dialog: alert() returns in the catch block
\* of the handler that called it, and the handler's finally block runs,
\* enabling the button again (of the component instance that ran the
\* handler, if it is still mounted).
DismissAlert ==
    /\ alert # ""
    /\ \E i \in DOMAIN threads :
          /\ threads[i].stage = "alert"
          /\ isCreatingIncident' =
                IF threads[i].kind = "create" /\ threads[i].fate = "live" THEN FALSE
                ELSE isCreatingIncident
          /\ isClosing' =
                IF threads[i].kind = "close" /\ threads[i].fate = "live"
                THEN isClosing \ {threads[i].id}
                ELSE isClosing
          /\ threads' = Remove(threads, i)
    /\ alert' = ""
    /\ calls' = <<>>
    /\ UNCHANGED <<serverVars, apiVars, pageVars, overviewMetrics, raIncidents,
                   detailsVars, boardVars, chatVars>>

\* A timer fires (every 30 seconds): the fetch function of the component
\* runs up to its await.
PollTick(component) ==
    /\ alert = ""
    /\ component \in timers
    /\ Len(threads) < MaxInFlight
    /\ threads' = Append(threads, ListRequest(component))
    /\ calls' = <<>>
    /\ UNCHANGED <<serverVars, apiVars, alert, uiVars, chatVars>>

\* ---------------------------------------------- the list fetches resumed
\* IncidentOverview, fetchMetrics after its await; a failed fetch is logged.
FetchMetricsResume(i) ==
    /\ alert = ""
    /\ Answered(i, "overview")
    /\ LET g == getIncidents(threads[i].resp)
       IN  /\ overviewMetrics' = IF g.threw THEN overviewMetrics
                                 ELSE OverviewMetrics(g.value)
           /\ calls' = <<Issued("getIncidents", 0, g)>>
    /\ threads' = Remove(threads, i)
    /\ UNCHANGED <<serverVars, apiVars, alert, pageVars, isCreatingIncident,
                   raIncidents, isClosing, detailsVars, boardVars, chatVars>>

\* RecentActivity, fetchIncidents after its await: the five newest replace
\* the list shown; a failed fetch is logged.
FetchIncidentsResume(i) ==
    /\ alert = ""
    /\ Answered(i, "recent")
    /\ LET g == getIncidents(threads[i].resp)
       IN  /\ raIncidents' = IF g.threw THEN raIncidents
                             ELSE Slice(SortByCreatedDesc(g.value), RecentLimit)
           /\ calls' = <<Issued("getIncidents", 0, g)>>
    /\ threads' = Remove(threads, i)
    /\ UNCHANGED <<serverVars, apiVars, alert, pageVars, overviewMetrics,
                   isCreatingIncident, isClosing, detailsVars, boardVars,
                   chatVars>>

\* System Health, fetchMetrics after its await.  A failed fetch, or an
\* iteration of the forEach that throws, is logged by the catch and leaves
\* the metrics as they are; what the iterations before have written to
\* Object.prototype stays.  Once the page is left setMetrics sets nothing.
HealthFetchMetricsResume(i) ==
    /\ alert = ""
    /\ Answered(i, "health")
    /\ LET g == getIncidents(threads[i].resp)
           run == IF g.threw THEN [own |-> EmptyMap, proto |-> objectPrototype, threw |-> TRUE]
                  ELSE ComponentHealth(objectPrototype, g.value)
       IN  /\ metrics' = IF run.threw \/ threads[i].fate # "live" THEN metrics
                         ELSE HealthMetrics(run.own, g.value)
           /\ objectPrototype' = run.proto
           /\ calls' = <<Issued("getIncidents", 0, g)>>
    /\ threads' = Remove(threads, i)
    /\ UNCHANGED <<serverVars, apiVars, alert, page, timers, homeVars, detailsVars,
                   metricsIncidents, loading, chatVars>>

\* Metrics page, fetchIncidents after its await; loading ends either way.
MetricsFetchIncidentsResume(i) ==
    /\ alert = ""
    /\ Answered(i, "metrics")
    /\ LET g == getIncidents(threads[i].resp)
       IN  /\ metricsIncidents' = IF g.threw THEN metricsIncidents ELSE g.value
           /\ calls' = <<Issued("getIncidents", 0, g)>>
    /\ loading' = FALSE
    /\ threads' = Remove(threads, i)
    /\ UNCHANGED <<serverVars, apiVars, alert, pageVars, homeVars, detailsVars,
                   metrics, chatVars>>

\* --------------------------------------------------- dashboard: QuickActions
\* What the browser clock reads when the button is clicked.
ClientNow == 7

\* The request body handleCreateIncident sends.
QuickActionBody ==
    [title |-> "API Gateway High CPU Usage", component |-> "api-gateway",
     severity |-> "high", status |-> "open",
     created_at |-> ClientNow, updated_at |-> ClientNow]

\* created_at and updated_at are two readings of the clock: the second may
\* be a millisecond later than the first.
QuickActionBodies ==
    {QuickActionBody, [QuickActionBody EXCEPT !.updated_at = ClientNow + 1]}

CreateFailedAlert == "Failed to create incident. Please try again."

CloseFailedAlert == "Failed to close incident. Please try again."

\* handleCreateIncident up to its first await: the button is disabled and
\* the create request is on its way.
HandleCreateIncident(body) ==
    /\ page = "dashboard"
    /\ alert = ""
    /\ ~isCreatingIncident
    /\ Len(threads) < MaxInFlight
    /\ isCreatingIncident' = TRUE
    /\ threads' = Append(threads, Thread("create", "createIncident", 0, body))
    /\ calls' = <<>>
    /\ UNCHANGED <<serverVars, apiVars, alert, pageVars, overviewMetrics,
                   raIncidents, isClosing, detailsVars, boardVars, chatVars>>

\* handleCreateIncident after an await.  After createIncident: the analyze
\* request for the new incident is sent.  After analyzeIncident: the document
\* is reloaded.  Either call throwing raises the same alert, and the handler
\* stays in alert() until the dialog is dismissed.
HandleCreateIncidentResume(i) ==
    /\ alert = ""
    /\ Answered(i, "create")
    /\ LET t == threads[i]
           r == IF t.op = "createIncident" THEN createIncident(t.resp)
                ELSE analyzeIncident(t.resp)
           settled == Append(t.calls, Issued(t.op, t.id, r))
       IN  IF r.threw
           THEN /\ alert' = CreateFailedAlert
                /\ threads' = [threads EXCEPT ![i] =
                                  [t EXCEPT !.stage = "alert", !.calls = settled]]
                /\ calls' = settled
                /\ UNCHANGED <<uiVars, chatVars>>
           ELSE IF t.op = "createIncident"
           THEN /\ threads' = [threads EXCEPT ![i] =
                                  NextCall(t, "analyzeIncident", r.value.id, settled)]
                /\ calls' = <<>>
                /\ UNCHANGED <<alert, uiVars, chatVars>>
           ELSE /\ Reload(Remove(threads, i))
                /\ calls' = settled
                /\ UNCHANGED alert
    /\ UNCHANGED <<serverVars, apiVars>>

\* ------------------------------------------------- dashboard: RecentActivity
\* refreshIncidents() of the IncidentContext bumps refreshKey: the effect of
\* a mounted IncidentOverview runs again, which clears its interval, calls
\* fetchMetrics and sets the interval anew.
RefreshIncidents(ts, closed) ==
    IF page = "dashboard"
    THEN Append(ts, [ListRequest("overview") EXCEPT !.closed = closed])
    ELSE ts

\* handleCloseIncident up to its await: the button of the incident is
\* disabled and the close request is on its way.
HandleCloseIncident(id) ==
    /\ page = "dashboard"
    /\ alert = ""
    /\ CloseButtonShown(id)
    /\ id \notin isClosing
    /\ Len(threads) < MaxInFlight
    /\ isClosing' = isClosing \cup {id}
    /\ threads' = Append(threads, Thread("close", "closeIncident", id, NoValue))
    /\ calls' = <<>>
    /\ UNCHANGED <<serverVars, apiVars, alert, pageVars, overviewMetrics,
                   isCreatingIncident, raIncidents, detailsVars, boardVars,
                   chatVars>>

\* handleCloseIncident after its await: the incident shown is marked
\* 'resolved', the other components are told to refresh and the finally
\* block enables the button again; or the catch alerts, and the handler
\* stays in alert() until the dialog is dismissed.
HandleCloseIncidentResume(i) ==
    /\ alert = ""
    /\ Answered(i, "close")
    /\ LET t == threads[i]
           c == closeIncident(t.resp)
       IN  /\ calls' = <<Issued("closeIncident", t.id, c)>>
           /\ IF c.threw
              THEN /\ alert' = CloseFailedAlert
                   /\ threads' = [threads EXCEPT ![i].stage = "alert"]
                   /\ UNCHANGED <<raIncidents, isClosing, closedIds>>
              ELSE /\ raIncidents' = IF t.fate = "live"
                                     THEN MarkResolved(raIncidents, t.id)
                                     ELSE raIncidents
                   /\ closedIds' = closedIds \cup {t.id}
                   /\ threads' = RefreshIncidents(Remove(threads, i), closedIds')
                   /\ isClosing' = IF t.fate = "live" THEN isClosing \ {t.id}
                                   ELSE isClosing
                   /\ UNCHANGED alert
    /\ UNCHANGED <<serverVars, pageVars, overviewMetrics, isCreatingIncident,
                   detailsVars, boardVars, chatVars>>

\* ------------------------------------------------------ IncidentDetails page
ErrorToast == [message |-> "Failed to execute action. Please try again.", type |-> "error"]

SuccessToast(message) ==
    [message |-> IF message # "" THEN message ELSE "Action executed successfully",
     type |-> "success"]

\* fetchIncidentDetails (the mount effect) after an await.  After
\* getIncidents: the incident of the route is looked up and, when found, set
\* and analyzed.  After analyzeIncident: analysis and actions are set and the
\* health check is requested.  After getHealthCheck: the health status is
\* set.  Any call throwing ends the effect in its catch; what was set before
\* stays set.  Once the page is left, only the analyze request still counts.
FetchIncidentDetailsResume(i) ==
    /\ alert = ""
    /\ Answered(i, "details")
    /\ LET t == threads[i]
           live == t.fate = "live"
           r == IF t.op = "getIncidents" THEN getIncidents(t.resp)
                ELSE IF t.op = "analyzeIncident" THEN analyzeIncident(t.resp)
                ELSE getHealthCheck(t.resp)
           settled == Append(t.calls, Issued(t.op, IF t.op = "getIncidents" THEN 0 ELSE t.id, r))
           found == IF r.threw THEN NoValue ELSE Find(r.value, t.id)
       IN  IF t.op = "getIncidents" /\ found # NoValue
           THEN /\ incident' = IF live THEN found ELSE incident
                /\ threads' = [threads EXCEPT ![i] =
                      [NextCall(t, "analyzeIncident", t.id, settled)
                          EXCEPT !.fate = IF live THEN "live" ELSE "dead"]]
                /\ calls' = <<>>
                /\ UNCHANGED <<analysis, actions, healthStatus>>
           ELSE IF t.op = "analyzeIncident" /\ ~r.threw
           THEN /\ analysis' = r.value.analysis
                /\ actions' = r.value.recommended_actions
                /\ threads' = [threads EXCEPT ![i] =
                                  NextCall(t, "getHealthCheck", t.id, settled)]
                /\ calls' = <<>>
                /\ UNCHANGED <<incident, healthStatus>>
           ELSE /\ healthStatus' = IF t.op = "getHealthCheck" /\ ~r.threw
                                   THEN r.value.status ELSE healthStatus
                /\ threads' = Remove(threads, i)
                /\ calls' = settled
                /\ UNCHANGED <<incident, analysis, actions>>
    /\ UNCHANGED <<serverVars, apiVars, alert, pageVars, homeVars, detailsId, toast,
                   detailsIsLoading, boardVars, chatVars>>

\* An Execute button is rendered per action; it is disabled while isLoading
\* and while the page's copy of the incident is 'resolved'.
ExecuteButtonEnabled(actionId) ==
    /\ incident # NoValue
    /\ actionId \in Range(actions)
    /\ ~detailsIsLoading
    /\ incident.status # "resolved"

\* executeAction of the details page up to its first await.
HandleExecuteAction(actionId) ==
    /\ page = "details"
    /\ alert = ""
    /\ ExecuteButtonEnabled(actionId)
    /\ Len(threads) < MaxInFlight
    /\ detailsIsLoading' = TRUE
    /\ threads' = Append(threads, Thread("execute", "executeAction", detailsId,
                                         [action_id |-> actionId]))
    /\ calls' = <<>>
    /\ UNCHANGED <<serverVars, apiVars, alert, pageVars, homeVars, detailsId, incident,
                   analysis, actions, healthStatus, toast, boardVars, chatVars>>

\* executeAction of the details page after an await.  After executeAction:
\* on result.success the list is requested; success=false ends the handler
\* with nothing set.  After getIncidents: the incident, when found, is set
\* and the health check requested.  After getHealthCheck: the health status
\* and the success toast are set.  A throw of any of the three calls sets
\* the error toast.  The finally block resets isLoading.
HandleExecuteActionResume(i) ==
    /\ alert = ""
    /\ Answered(i, "execute")
    /\ LET t == threads[i]
           r == IF t.op = "executeAction" THEN executeAction(t.resp)
                ELSE IF t.op = "getIncidents" THEN getIncidents(t.resp)
                ELSE getHealthCheck(t.resp)
           settled == Append(t.calls, Issued(t.op, IF t.op = "getIncidents" THEN 0 ELSE t.id, r))
           upd == IF t.op = "getIncidents" /\ ~r.threw THEN Find(r.value, t.id)
                  ELSE NoValue
       IN  IF r.threw \/ (t.op = "executeAction" /\ ~r.value.success)
                      \/ t.op = "getHealthCheck"
           THEN /\ toast' = IF r.threw THEN ErrorToast
                            ELSE IF t.op = "getHealthCheck" THEN SuccessToast(t.carry)
                            ELSE toast
                /\ healthStatus' = IF t.op = "getHealthCheck" /\ ~r.threw
                                   THEN r.value.status ELSE healthStatus
                /\ detailsIsLoading' = FALSE
                /\ threads' = Remove(threads, i)
                /\ calls' = settled
                /\ UNCHANGED incident
           ELSE /\ incident' = IF upd # NoValue THEN upd ELSE incident
                /\ threads' = [threads EXCEPT ![i] =
                      IF t.op = "executeAction"
                      THEN [NextCall(t, "getIncidents", t.id, settled)
                               EXCEPT !.carry = Field(r.value, "message", "")]
                      ELSE NextCall(t, "getHealthCheck", t.id, settled)]
                /\ calls' = <<>>
                /\ UNCHANGED <<healthStatus, toast, detailsIsLoading>>
    /\ UNCHANGED <<serverVars, apiVars, alert, pageVars, homeVars, detailsId, analysis,
                   actions, boardVars, chatVars>>

\* The toast's close button.
CloseToast ==
    /\ page = "details"
    /\ alert = ""
    /\ toast # NoValue
    /\ toast' = NoValue
    /\ calls' = <<>>
    /\ UNCHANGED <<serverVars, apiVars, threads, alert, pageVars, homeVars, detailsId,
                   incident, analysis, actions, healthStatus, detailsIsLoading,
                   boardVars, chatVars>>

\* ------------------------------------------------ external nondeterminism
\* What the external generative process may give an analyze call.
LlmOutputs ==
    {[failed |-> TRUE,  analysis |-> "",           actions |-> <<>>],
     [failed |-> FALSE, analysis |-> "",           actions |-> <<>>],
     [failed |-> FALSE, analysis |-> "Root cause", actions |-> <<>>],
     [failed |-> FALSE, analysis |-> "Root cause", actions |-> <<"a1", "a2">>]}

AnalysisFails(llm) == llm.failed \/ llm.analysis = ""

\* What the environment gives an analyze request.  The Analysis Service is
\* not consulted behind an unreachable backend: its output is then fixed, so
\* that each outcome is drawn once.
AnalyzeEnvs == {e \in [up : BOOLEAN, llm : LlmOutputs] : ~e.up => e.llm.failed}

\* -------------------------------------------- the requests are answered
\* The request of thread i is answered: the controller has run (or fetch has
\* rejected), and the response waits for the handler to resume.  The request
\* of a dead thread has nobody waiting.
Serve(i, out) ==
    /\ store' = out.store
    /\ now' = out.now
    /\ threads' =
          IF threads[i].fate = "dead" THEN Remove(threads, i)
          ELSE [threads EXCEPT ![i].stage = "answered", ![i].resp = out.resp]
    /\ calls' = <<>>
    /\ UNCHANGED <<apiVars, alert, uiVars, chatVars>>

ServeCreate(i, up) ==
    /\ Sent(i, "createIncident")
    /\ Len(store) < MaxIncidents
    /\ now < MaxTime
    /\ Serve(i, ServerCreate(store, now, up, threads[i].arg))

ServeList(i, up) ==
    /\ Sent(i, "getIncidents")
    /\ Serve(i, ServerList(store, now, up))

ServeAnalyze(i, up, llm) ==
    /\ Sent(i, "analyzeIncident")
    /\ Serve(i, ServerAnalyze(store, now, up, threads[i].id, llm))

ServeExecuteAction(i, up, executorOk) ==
    /\ Sent(i, "executeAction")
    /\ now < MaxTime
    /\ Serve(i, ServerExecuteAction(store, now, up, threads[i].id,
                                    threads[i].arg.action_id, executorOk))

ServeHealthCheck(i, up, serviceOk) ==
    /\ Sent(i, "getHealthCheck")
    /\ Serve(i, ServerHealthCheck(store, now, up, threads[i].id, serviceOk))

ServeClose(i, up) ==
    /\ Sent(i, "closeIncident")
    /\ now < MaxTime
    /\ Serve(i, ServerClose(store, now, up, threads[i].id))

\* ------------------------------------------------------- other clients
\* The backend serves a request of another client, or of another call of
\* this client that nothing of the model awaits, and the request changes the
\* store.  IncidentService keeps no state on the client: such a request shows
\* to the calls awaited only through the store.
OtherClientRequest(out) ==
    /\ out.store # store
    /\ store' = out.store
    /\ now' = out.now
    /\ calls' = <<>>
    /\ UNCHANGED <<apiVars, threads, alert, uiVars, chatVars>>

OtherClientCreates(body) ==
    /\ Len(store) < MaxIncidents
    /\ now < MaxTime
    /\ OtherClientRequest(ServerCreate(store, now, TRUE, body))

OtherClientAnalyzes(id, llm) ==
    OtherClientRequest(ServerAnalyze(store, now, TRUE, id, llm))

OtherClientExecutes(id, actionId) ==
    /\ now < MaxTime
    /\ OtherClientRequest(ServerExecuteAction(store, now, TRUE, id, actionId, TRUE))

OtherClientCloses(id) ==
    /\ now < MaxTime
    /\ OtherClientRequest(ServerClose(store, now, TRUE, id))

\* ------------------------------------- single service calls (any client)
\* Request bodies a client may post to create: the dashboard's, one that also
\* asks for a status, and a malformed one.
CreateBodies ==
    QuickActionBodies \cup
    {[QuickActionBody EXCEPT !.status = "resolved"],
     [QuickActionBody EXCEPT !.severity = "urgent"]}

\* Ids a client may name: those the store can hold, and one it never holds.
CallIds == 1 .. (MaxIncidents + 1)

\* What the wrapper of the operation gives its caller for a response.
Wrapper(op, resp) ==
    IF op = "createIncident" THEN createIncident(resp)
    ELSE IF op = "getIncidents" THEN getIncidents(resp)
    ELSE IF op = "analyzeIncident" THEN analyzeIncident(resp)
    ELSE IF op = "executeAction" THEN executeAction(resp)
    ELSE IF op = "getHealthCheck" THEN getHealthCheck(resp)
    ELSE closeIncident(resp)

\* A client calls a wrapper: up to the await of fetch.  The client awaits a
\* call before it makes the next one; what calls made meanwhile do to the
\* store is OtherClientRequest.
ApiCall(op, id, arg) ==
    /\ threads = <<>>
    /\ threads' = Append(threads, Thread("api", op, id, arg))
    /\ calls' = <<>>
    /\ UNCHANGED <<serverVars, apiVars, alert, uiVars, chatVars>>

ApiCreateIncident(body) == ApiCall("createIncident", 0, body)

ApiGetIncidents == ApiCall("getIncidents", 0, NoValue)

ApiAnalyzeIncident(id) == ApiCall("analyzeIncident", id, NoValue)

ApiExecuteAction(id, actionId) == ApiCall("executeAction", id, [action_id |-> actionId])

ApiGetHealthCheck(id) == ApiCall("getHealthCheck", id, NoValue)

ApiCloseIncident(id) == ApiCall("closeIncident", id, NoValue)

\* The wrapper after its awaits (fetch, response.json()): the call returns
\* to the client, or throws.
Called(i) ==
    /\ Answered(i, "api")
    /\ closedIds' = IF threads[i].op = "closeIncident"
                       /\ ~closeIncident(threads[i].resp).threw
                    THEN closedIds \cup {threads[i].id} ELSE closedIds
    /\ threads' = Remove(threads, i)
    /\ calls' = <<>>
    /\ UNCHANGED <<serverVars, alert, uiVars, chatVars>>

\* ------------------------------------------- closes in flight (CloseSpec)
\* Another browser tab sends a close request: nothing in this tab awaits
\* its response.
OtherTabSendsClose(id) ==
    /\ Len(threads) < MaxInFlight
    /\ threads' = Append(threads, [Thread("other", "closeIncident", id, NoValue)
                                      EXCEPT !.fate = "dead"])
    /\ calls' = <<>>
    /\ UNCHANGED <<serverVars, apiVars, alert, uiVars, chatVars>>

\* fetch rejects: the close request never reaches the controller.
CloseRequestLost(i) ==
    /\ Sent(i, "closeIncident")
    /\ Serve(i, Outcome(store, now, ErrResponse("NetworkError")))

\* The controller handles a close request in two steps, between which it
\* may handle other requests.  First it looks the incident up:
\* NotFoundError, or the record it is about to close.
ServerCloseRead(i) ==
    /\ Sent(i, "closeIncident")
    /\ IF threads[i].id \in Ids(store)
       THEN /\ threads' = [threads EXCEPT ![i].stage = "read",
                                          ![i].seen = Find(store, threads[i].id)]
            /\ calls' = <<>>
            /\ UNCHANGED <<serverVars, apiVars, alert, uiVars, chatVars>>
       ELSE Serve(i, Outcome(store, now, ErrResponse("NotFoundError")))

\* Mutant of ServerCloseWrite: a close of a resolved incident opens it again.
ServerCloseWriteReopening(i) ==
    /\ i \in DOMAIN threads
    /\ threads[i].stage = "read"
    /\ now < MaxTime
    /\ LET upd == [threads[i].seen EXCEPT
                      !.status = IF @ = "resolved" THEN "open" ELSE "resolved",
                      !.updated_at = now + 1]
       IN  Serve(i, Outcome(Update(store, threads[i].id, upd), now + 1, OkResponse(upd)))

\* Then it stores the record it read with status 'resolved' and the closure
\* time, and answers with it.
ServerCloseWrite(i) ==
    /\ i \in DOMAIN threads
    /\ threads[i].stage = "read"
    /\ now < MaxTime
    /\ LET upd == [threads[i].seen EXCEPT !.status = "resolved", !.updated_at = now + 1]
       IN  Serve(i, Outcome(Update(store, threads[i].id, upd), now + 1, OkResponse(upd)))

\* --------------------------------------------------------- specifications
\* The browser tab once the document of page p ("none": no page; the client
\* of ApiSpec is any program) has loaded: its components are mounted with
\* their initial state, their mount effects have begun, nothing is stored
\* under 'chatMessages' but what the chat's save effect has just written.
Fresh(p) ==
    /\ closedIds = {}
    /\ threads = MountRequests(p, 0)
    /\ page = p
    /\ timers = PageTimers(p)
    /\ objectPrototype = CleanPrototype
    /\ alert = ""
    /\ overviewMetrics = InitialOverview
    /\ isCreatingIncident = FALSE
    /\ raIncidents = <<>>
    /\ isClosing = {}
    /\ detailsId = 0
    /\ incident = NoValue
    /\ analysis = ""
    /\ actions = <<>>
    /\ healthStatus = ""
    /\ toast = NoValue
    /\ detailsIsLoading = FALSE
    /\ metrics = InitialMetrics
    /\ metricsIncidents = <<>>
    /\ loading = TRUE
    /\ calls = <<>>
    /\ chatMounted = (p = "dashboard")
    /\ messages = <<>>
    /\ input = <<>>
    /\ isLoading = FALSE
    /\ showClearConfirm = FALSE
    /\ executionPopup = NoPopup
    /\ popup = NoValue
    /\ chatStorage = IF p = "dashboard" THEN Stringify(<<>>) ELSE NoValue
    /\ queries = <<>>
    /\ chatNow = 0
    /\ chatEvent = IF p = "dashboard" THEN [NoEvent EXCEPT !.name = "mount"] ELSE NoEvent

\* The positions a thread can have in the order of the calls begun.
Slots == 1 .. MaxInFlight

\* The requests in flight are answered, in any order, each finding the
\* backend reachable or not.
ServeNext ==
    \/ \E i \in Slots, up \in BOOLEAN : ServeCreate(i, up)
    \/ \E i \in Slots, up \in BOOLEAN : ServeList(i, up)
    \/ \E i \in Slots, e \in AnalyzeEnvs : ServeAnalyze(i, e.up, e.llm)
    \/ \E i \in Slots, up, executorOk \in BOOLEAN : ServeExecuteAction(i, up, executorOk)
    \/ \E i \in Slots, up, serviceOk \in BOOLEAN : ServeHealthCheck(i, up, serviceOk)
    \/ \E i \in Slots, up \in BOOLEAN : ServeClose(i, up)

\* The dashboard has loaded over an empty store.
Init ==
    /\ store = <<>>
    /\ now = 0
    /\ Fresh("dashboard")

\* One tab on the dashboard and the incident details page: what the user
\* can click, the handlers resumed, the requests answered.
Next ==
    \/ \E body \in QuickActionBodies : HandleCreateIncident(body)
    \/ \E i \in Slots : HandleCreateIncidentResume(i)
    \/ DismissAlert
    \/ \E i \in Slots : FetchMetricsResume(i)
    \/ \E i \in Slots : FetchIncidentsResume(i)
    \/ \E id \in CallIds : HandleCloseIncident(id)
    \/ \E i \in Slots : HandleCloseIncidentResume(i)
    \/ \E id \in CallIds : OpenDetails(id)
    \/ OpenNewIncident
    \/ \E i \in Slots : FetchIncidentDetailsResume(i)
    \/ \E a \in ActionIds : HandleExecuteAction(a)
    \/ \E i \in Slots : HandleExecuteActionResume(i)
    \/ CloseToast
    \/ OpenDashboard
    \/ ServeNext

Spec == Init /\ [][Next]_vars

\* A client with no page: IncidentService calls with any arguments, each
\* awaited while the backend serves the requests of others.
ApiInit ==
    /\ store = <<>>
    /\ now = 0
    /\ Fresh("none")

ApiNext ==
    \/ \E body \in CreateBodies : ApiCreateIncident(body)
    \/ ApiGetIncidents
    \/ \E id \in CallIds : ApiAnalyzeIncident(id)
    \/ \E id \in CallIds, a \in ActionIds : ApiExecuteAction(id, a)
    \/ \E id \in CallIds : ApiGetHealthCheck(id)
    \/ \E id \in CallIds : ApiCloseIncident(id)
    \/ \E i \in Slots : Called(i)
    \/ ServeNext
    \/ \E body \in CreateBodies : OtherClientCreates(body)
    \/ \E id \in CallIds, llm \in LlmOutputs : OtherClientAnalyzes(id, llm)
    \/ \E id \in CallIds, a \in ActionIds : OtherClientExecutes(id, a)
    \/ \E id \in CallIds : OtherClientCloses(id)

ApiSpec == ApiInit /\ [][ApiNext]_vars

\* The incident lists the backend may return to the System Health page: up to
\* MaxList incidents of any component, severity and status, listed oldest
\* first or newest first (the order of list() is not part of its contract).
\* An incident that has been acted on or closed has a later updated_at.
ListedIncident(n, k, newestFirst, f) ==
    LET created == IF newestFirst THEN n + 1 - k ELSE k
    IN  Incident(created, f.component, f.severity, f.status, created,
                 IF f.status \in {"in_progress", "resolved"} THEN created + n ELSE created)

IncidentFields == [component : Components, severity : Severities, status : Statuses]

\* The System Health page has loaded.
HealthInit ==
    /\ \E n \in 0 .. MaxList, newestFirst \in BOOLEAN :
         \E fields \in [1 .. n -> IncidentFields] :
            store = [k \in 1 .. n |-> ListedIncident(n, k, newestFirst, fields[k])]
    /\ now = 2 * Len(store)
    /\ Fresh("health")

HealthNext ==
    \/ PollTick("health")
    \/ \E i \in Slots, up \in BOOLEAN : ServeList(i, up)
    \/ \E i \in Slots : HealthFetchMetricsResume(i)

HealthSpec == HealthInit /\ [][HealthNext]_vars

\* A store that holds incidents in any status.
StoreInit ==
    /\ \E n \in 1 .. MaxIncidents :
         \E status \in [1 .. n -> Statuses] :
            store = [k \in 1 .. n |->
                       Incident(k, "api-gateway", "high", status[k], k, k)]
    /\ now = Len(store)

\* The dashboard has loaded over such a store.  Recent Activity fetches and
\* displays the list, the user closes incidents it shows, and so do other
\* tabs meanwhile; the controller may be handling two closes at once.
CloseInit == StoreInit /\ Fresh("dashboard")

CloseNext ==
    \/ \E i \in Slots, up \in BOOLEAN : ServeList(i, up)
    \/ \E i \in Slots : FetchIncidentsResume(i)
    \/ \E i \in Slots : FetchMetricsResume(i)
    \/ \E id \in CallIds : HandleCloseIncident(id)
    \/ \E id \in CallIds : OtherTabSendsClose(id)
    \/ \E i \in Slots : CloseRequestLost(i)
    \/ \E i \in Slots : ServerCloseRead(i)
    \/ \E i \in Slots : ServerCloseWrite(i)
    \/ \E i \in Slots : HandleCloseIncidentResume(i)
    \/ DismissAlert

CloseSpec == CloseInit /\ [][CloseNext]_vars

\* The dashboard has loaded over the lists the backend may return: up to
\* MaxFetched incidents in any order of created_at, equal timestamps included
\* (the order of list() is not part of its contract).
RecentInit ==
    /\ \E n \in 0 .. MaxFetched :
         \E created \in [1 .. n -> 1 .. MaxStamp] :
            store = [k \in 1 .. n |->
                       Incident(k, "api-gateway", "high", "open", created[k], created[k])]
    /\ now = MaxStamp
    /\ Fresh("dashboard")

\* The list fetches of the dashboard's mount effects.
RecentNext ==
    \/ \E i \in Slots, up \in BOOLEAN : ServeList(i, up)
    \/ \E i \in Slots : FetchIncidentsResume(i)
    \/ \E i \in Slots : FetchMetricsResume(i)

RecentSpec == RecentInit /\ [][RecentNext]_vars

\* The dashboard over a store that holds incidents: the list fetches (of the
\* mount effects, the timers and refreshIncidents) and the closes of Recent
\* Activity, in flight in any order; no other client changes the store.
RaceInit == StoreInit /\ Fresh("dashboard")

RaceNext ==
    \/ \E component \in {"overview", "recent"} : PollTick(component)
    \/ \E i \in Slots, up \in BOOLEAN : ServeList(i, up)
    \/ \E i \in Slots : FetchIncidentsResume(i)
    \/ \E i \in Slots : FetchMetricsResume(i)
    \/ \E id \in CallIds : HandleCloseIncident(id)
    \/ \E i \in Slots, up \in BOOLEAN : ServeClose(i, up)
    \/ \E i \in Slots : HandleCloseIncidentResume(i)
    \/ DismissAlert

RaceSpec == RaceInit /\ [][RaceNext]_vars

\* The dashboard overview and the Metrics page over the lists the backend
\* may hold: up to MaxFetched incidents of any status, none included.
RateInit ==
    /\ \E n \in 0 .. MaxFetched :
         \E status \in [1 .. n -> Statuses] :
            store = [k \in 1 .. n |->
                       Incident(k, "api-gateway", "high", status[k], k, k)]
    /\ now = Len(store)
    /\ Fresh("dashboard")

RateNext ==
    \/ OpenMetrics
    \/ OpenDashboard
    \/ \E i \in Slots, up \in BOOLEAN : ServeList(i, up)
    \/ \E i \in Slots : FetchMetricsResume(i)
    \/ \E i \in Slots : FetchIncidentsResume(i)
    \/ \E i \in Slots : MetricsFetchIncidentsResume(i)

RateSpec == RateInit /\ [][RateNext]_vars

\* The chat of the dashboard: typing, submits and their replies, Clear Chat,
\* Run; the user leaves the dashboard for the Metrics page and comes back.
ChatNext ==
    \/ OpenMetrics
    \/ OpenDashboard
    \/ \E text \in Inputs : SetInput(text)
    \/ ChatTick
    \/ HandleSubmit
    \/ \E i \in Slots, reply \in QueryReplies : QueryReturns(i, reply)
    \/ ClickClearChat
    \/ CancelClear
    \/ HandleClearChat
    \/ \E m \in 1 .. MaxMessages, b \in 1 .. 3 : RunCommand(m, b)
    \/ \E h \in TimerHandles : PopupTimer(h)
    \/ ClosePopup

ChatSpec == Init /\ [][ChatNext]_vars

\* One tab moving between the dashboard, the System Health page and the
\* Metrics page while their timers fire, their list requests are answered
\* and other clients close incidents.
PollNext ==
    \/ OpenHealth
    \/ OpenMetrics
    \/ OpenDashboard
    \/ \E component \in {"health", "overview", "recent"} : PollTick(component)
    \/ \E id \in CallIds : OtherClientCloses(id)
    \/ \E i \in Slots, up \in BOOLEAN : ServeList(i, up)
    \/ \E i \in Slots : FetchMetricsResume(i)
    \/ \E i \in Slots : FetchIncidentsResume(i)
    \/ \E i \in Slots : HealthFetchMetricsResume(i)
    \/ \E i \in Slots : MetricsFetchIncidentsResume(i)

PollSpec == RaceInit /\ [][PollNext]_vars


\* The chat with the popup's 2000 ms timer: a timer that stays set fires.
ChatFairSpec == ChatSpec /\ \A h \in TimerHandles : WF_vars(PopupTimer(h))

\* ================================================================ claims
\* --------------------------------------------- System Health (HealthSpec)
\* The handler that has just ended is a fetchMetrics of the System Health
\* page that got the list (the store of HealthSpec never changes, so the
\* list fetched is the store).
HealthFetched ==
    /\ page = "health"
    /\ calls # <<>>
    /\ calls[1].op = "getIncidents"
    /\ ~calls[1].threw

\* The list holds a not-resolved incident of the component and severity.
Unresolved(list, component, severity) ==
    \E i \in DOMAIN list :
        /\ list[i].component = component
        /\ list[i].status # "resolved"
        /\ list[i].severity = severity

\* C1: a component with at least one unresolved critical incident is shown
\* 'unhealthy', whatever its other incidents and their order in the list.
C1_CriticalIsUnhealthy ==
    HealthFetched =>
        \A c \in Components :
            Unresolved(store, c, "critical") =>
                /\ c \in DOMAIN metrics.componentHealth
                /\ metrics.componentHealth[c].status = "unhealthy"

\* C2: a component of the list without unresolved critical incident is shown
\* 'degraded' if it has an unresolved high incident and 'healthy' otherwise.
C2_DegradedOrHealthy ==
    HealthFetched =>
        /\ DOMAIN metrics.componentHealth = {store[i].component : i \in DOMAIN store}
        /\ \A c \in DOMAIN metrics.componentHealth :
              ~Unresolved(store, c, "critical") =>
                  metrics.componentHealth[c].status =
                      IF Unresolved(store, c, "high") THEN "degraded" ELSE "healthy"

\* ------------------------------------------------------ the UI tab (Spec)
LifecycleEdges ==
    {<<"open", "analyzing">>, <<"analyzing", "in_progress">>,
     <<"in_progress", "resolved">>}

\* C3: whatever the UI does, an incident's status changes only along
\* open -> analyzing, analyzing -> in_progress, in_progress -> resolved.
C3_OnlyLifecycleEdges ==
    [][\A i \in DOMAIN store :
          store'[i].status # store[i].status =>
              <<store[i].status, store'[i].status>> \in LifecycleEdges]_vars

\* C4: once an incident is 'resolved', it is 'resolved' after every later
\* operation of the UI.
C4_ResolvedIsTerminal ==
    [][\A i \in DOMAIN store :
          store[i].status = "resolved" => store'[i].status = "resolved"]_vars

\* C14: when a service call of a UI handler rejects, the call is not issued
\* again by the handler and the component shows a failure notification (the
\* alert, or the error toast).
C14_FailureNotified ==
    (\E i \in DOMAIN calls : calls[i].threw) =>
        /\ \A i, j \in DOMAIN calls : calls[i].op = calls[j].op => i = j
        /\ alert # "" \/ Field(toast, "type", "") = "error"

\* C17: a UI action (create incident, close incident, execute action) issues
\* exactly one network call.
C17_OneCallPerAction ==
    (calls # <<>> /\ calls[1].op \in {"createIncident", "closeIncident", "executeAction"}) =>
        Len(calls) = 1

\* The request of thread i is answered in this step, and its handler is
\* there to receive the response.
Served(i, op) ==
    /\ Sent(i, op)
    /\ threads[i].fate # "dead"
    /\ Len(threads') = Len(threads)
    /\ threads'[i].stage = "answered"

\* Thread i, which awaits the analysis, is resumed in this step by the
\* handler it runs.
AnalyzeResumed(i) ==
    /\ i \in DOMAIN threads
    /\ threads[i].stage = "answered"
    /\ threads[i].op = "analyzeIncident"
    /\ HandleCreateIncidentResume(i) \/ FetchIncidentDetailsResume(i)

\* The analysis of the call failed at the backend: the wrapper threw on the
\* non-2xx response.
AnalysisFailed(call) ==
    /\ call.op = "analyzeIncident"
    /\ call.threw
    /\ call.message = "Failed to analyze incident"

\* C15: when the analysis fails after analyze set the status to 'analyzing',
\* the controller leaves the incident 'analyzing' and answers with an error;
\* the handler that awaited the call (fetchIncidentDetails,
\* handleCreateIncident) gets the error thrown, leaves the store alone and
\* issues no further call.
C15_FailedAnalysisStaysAnalyzing ==
    [][\A i \in Slots :
          /\ (/\ Served(i, "analyzeIncident")
              /\ threads[i].id \in Ids(store)
              /\ threads'[i].resp.error = "ExternalServiceError") =>
                 /\ Find(store', threads[i].id).status = "analyzing"
                 /\ AnalysisFailed(Issued("analyzeIncident", threads[i].id,
                                          analyzeIncident(threads'[i].resp)))
          /\ (AnalyzeResumed(i) /\ analyzeIncident(threads[i].resp).threw) =>
                 /\ store' = store
                 /\ SelectSeq(threads', LAMBDA t : t.stage # "alert") = Remove(threads, i)
                 /\ calls'[Len(calls')].op = "analyzeIncident"
                 /\ calls'[Len(calls')].threw]_vars

\* Both handlers have had the analysis fail on them.  The details page was
\* opened for an incident and its effect has ended with the incident set and
\* no analysis; and Create Incident, clicked before the dashboard was left,
\* has stored a second incident whose analysis failed, and is showing its
\* alert.  Both incidents are 'analyzing'.
C15_Witness ==
    /\ page = "details"
    /\ incident # NoValue
    /\ analysis = ""
    /\ \A i \in DOMAIN threads : threads[i].kind # "details"
    /\ Find(store, detailsId).status = "analyzing"
    /\ alert = CreateFailedAlert
    /\ Len(calls) = 2
    /\ AnalysisFailed(calls[2])
    /\ calls[2].id # detailsId
    /\ Find(store, calls[2].id).status = "analyzing"

\* --------------------------------------------- service calls (ApiSpec)
\* The call awaited by thread i has been answered and has not returned yet.
Pending(i, op) ==
    /\ Answered(i, "api")
    /\ threads[i].op = op

\* The request reached the controller (fetch did not reject).
Reached(resp) == resp.error # "NetworkError"

\* C5: an incident returned by create has status 'open' and an id no other
\* incident of the store has; ids are pairwise distinct in every state.
C5_CreateOpenUniqueId ==
    /\ [](\A i, j \in DOMAIN store : store[i].id = store[j].id => i = j)
    /\ [][\A i \in Slots :
             (Served(i, "createIncident") /\ ~createIncident(threads'[i].resp).threw) =>
                LET value == createIncident(threads'[i].resp).value
                IN  /\ Field(value, "status", "") = "open"
                    /\ Field(value, "id", 0) \notin Ids(store) \cup {0}
                    /\ Cardinality({k \in DOMAIN store' :
                                       store'[k].id = Field(value, "id", 0)}) = 1]_vars

\* A second incident was created from a body that asked for another status.
C5_Witness ==
    \E i \in DOMAIN threads :
        /\ Pending(i, "createIncident")
        /\ ~createIncident(threads[i].resp).threw
        /\ threads[i].arg.status = "resolved"
        /\ Len(store) > 1
        /\ createIncident(threads[i].resp).value.status = "open"

\* C18: an incident returned by create has created_at equal to updated_at,
\* both the creation instant of the server, whatever timestamps and timing
\* the request came with; the stored incident is the one returned.
C18_CreatedEqualsUpdated ==
    [][\A i \in Slots :
          (Served(i, "createIncident") /\ ~createIncident(threads'[i].resp).threw) =>
             LET value == createIncident(threads'[i].resp).value
             IN  /\ Field(value, "created_at", 0) = now'
                 /\ Field(value, "updated_at", 0) = now'
                 /\ now' > now
                 /\ Find(store', Field(value, "id", 0)) = value]_vars

\* An incident created from a body whose two timestamps differ.
C18_Witness ==
    \E i \in DOMAIN threads :
        /\ Pending(i, "createIncident")
        /\ ~createIncident(threads[i].resp).threw
        /\ threads[i].arg.created_at # threads[i].arg.updated_at
        /\ LET value == createIncident(threads[i].resp).value
           IN  /\ value.created_at = value.updated_at
               /\ value.created_at # threads[i].arg.created_at

\* C6: after an executeAction call that reports success the incident is
\* 'in_progress' and its updated_at is greater than before the call.
C6_ExecuteSuccess ==
    [][\A i \in Slots :
          (/\ Served(i, "executeAction")
           /\ ~executeAction(threads'[i].resp).threw
           /\ Field(executeAction(threads'[i].resp).value, "success", FALSE)) =>
             LET inc == Find(store', threads[i].id)
                 old == Find(store, threads[i].id)
             IN  /\ inc # NoValue
                 /\ old # NoValue
                 /\ inc.status = "in_progress"
                 /\ inc.updated_at > old.updated_at]_vars

\* A successful execution on an incident that had been updated before.
C6_Witness ==
    \E i \in DOMAIN threads :
        /\ Pending(i, "executeAction")
        /\ ~executeAction(threads[i].resp).threw
        /\ executeAction(threads[i].resp).value.success
        /\ Find(store, threads[i].id).status = "in_progress"
        /\ Find(store, threads[i].id).updated_at > Find(store, threads[i].id).created_at + 1

\* C7: after close(id) the incident is 'resolved', and every list() issued
\* after the close returned holds the incident with status 'resolved'.
C7_ClosedStaysListedResolved ==
    /\ [][\A i \in Slots :
             (Served(i, "closeIncident") /\ ~closeIncident(threads'[i].resp).threw) =>
                Field(Find(store', threads[i].id), "status", "") = "resolved"]_vars
    /\ [](\A i \in DOMAIN threads :
             (Pending(i, "getIncidents") /\ ~getIncidents(threads[i].resp).threw) =>
                \A id \in threads[i].closed :
                    \E k \in DOMAIN getIncidents(threads[i].resp).value :
                        /\ getIncidents(threads[i].resp).value[k].id = id
                        /\ getIncidents(threads[i].resp).value[k].status = "resolved")

\* C8: analyze on a known incident sets its status to 'analyzing'; when the
\* call succeeds it returns a non-empty analysis and an array of actions.
C8_AnalyzeResult ==
    [][\A i \in Slots :
          (/\ Served(i, "analyzeIncident")
           /\ Reached(threads'[i].resp)
           /\ threads[i].id \in Ids(store)) =>
             /\ Find(store', threads[i].id).status = "analyzing"
             /\ ~analyzeIncident(threads'[i].resp).threw =>
                   LET value == analyzeIncident(threads'[i].resp).value
                   IN  /\ Field(value, "analysis", "") # ""
                       /\ Field(value, "recommended_actions", NoValue) \in Seq(ActionIds)]_vars

\* A successful analysis with an empty array of actions.
C8_Witness ==
    \E i \in DOMAIN threads :
        /\ Pending(i, "analyzeIncident")
        /\ ~analyzeIncident(threads[i].resp).threw
        /\ analyzeIncident(threads[i].resp).value.analysis # ""
        /\ analyzeIncident(threads[i].resp).value.recommended_actions = <<>>
        /\ Find(store, threads[i].id).status = "analyzing"

\* C9: analyze, executeAction, healthCheck and close on an id that is not in
\* the store fail with NotFoundError and leave the store as it was.
C9_UnknownIdNotFound ==
    [][\A i \in Slots :
          \A op \in {"analyzeIncident", "executeAction", "getHealthCheck", "closeIncident"} :
             (/\ Served(i, op)
              /\ Reached(threads'[i].resp)
              /\ threads[i].id \notin Ids(store)) =>
                /\ threads'[i].resp.error = "NotFoundError"
                /\ Wrapper(op, threads'[i].resp).threw
                /\ store' = store]_vars

\* A close of an unknown id on a store that holds incidents.
C9_Witness ==
    \E i \in DOMAIN threads :
        /\ Pending(i, "closeIncident")
        /\ threads[i].resp.error = "NotFoundError"
        /\ closeIncident(threads[i].resp).threw
        /\ threads[i].id \notin Ids(store)
        /\ store # <<>>

\* C10: when the Action Executor reports failure, executeAction returns
\* success=false with a message, raises nothing, and the incident's status
\* and updated_at are as before the call.
C10_ExecutorFailure ==
    [][\A i \in Slots :
          (ServeExecuteAction(i, TRUE, FALSE) /\ threads[i].id \in Ids(store)) =>
             LET result == executeAction(threads'[i].resp)
             IN  /\ ~result.threw
                 /\ Field(result.value, "success", TRUE) = FALSE
                 /\ Field(result.value, "message", "") # ""
                 /\ Find(store', threads[i].id).status = Find(store, threads[i].id).status
                 /\ Find(store', threads[i].id).updated_at =
                       Find(store, threads[i].id).updated_at]_vars

\* A failed execution on an incident that is being analyzed.
C10_Witness ==
    \E i \in DOMAIN threads :
        /\ Pending(i, "executeAction")
        /\ ~executeAction(threads[i].resp).threw
        /\ executeAction(threads[i].resp).value.success = FALSE
        /\ executeAction(threads[i].resp).value.message # ""
        /\ Find(store, threads[i].id).status = "analyzing"

\* C11: healthCheck is read-only: whatever its outcome, every field of every
\* incident of the store is after the call what it was before it.
C11_HealthCheckReadOnly ==
    [][\A i \in Slots, up, serviceOk \in BOOLEAN :
          ServeHealthCheck(i, up, serviceOk) => store' = store]_vars

\* A health check answered for an incident that is being analyzed.
C11_Witness ==
    \E i \in DOMAIN threads :
        /\ Pending(i, "getHealthCheck")
        /\ ~getHealthCheck(threads[i].resp).threw
        /\ getHealthCheck(threads[i].resp).value.status \in HealthStatuses
        /\ Find(store, threads[i].id).status = "analyzing"

\* ------------------------------------------- closes in flight (CloseSpec)
\* C12: close is idempotent in effect: a close applied to an incident that
\* is already 'resolved' leaves it 'resolved', and after any close that came
\* back successfully, a first one, a second one, or one of two in flight at
\* once, the incident is 'resolved'.
C12_CloseIdempotent ==
    /\ \A i \in DOMAIN threads :
          (/\ threads[i].op = "closeIncident"
           /\ threads[i].stage = "answered"
           /\ Field(threads[i].seen, "status", "") = "resolved") =>
              Field(Find(store, threads[i].id), "status", "") = "resolved"
    /\ \A id \in closedIds : Field(Find(store, id), "status", "") = "resolved"

\* The close of this tab has found the incident already 'resolved' and has
\* been answered, while the controller is handling another tab's close of
\* the same incident, which found it 'resolved' too: the two closes were in
\* flight at once.
C12_Witness ==
    \E i, j \in DOMAIN threads :
        /\ threads[i].kind = "close"
        /\ threads[i].stage = "answered"
        /\ ~closeIncident(threads[i].resp).threw
        /\ threads[i].seen.status = "resolved"
        /\ threads[j].kind = "other"
        /\ threads[j].stage = "read"
        /\ threads[j].id = threads[i].id
        /\ threads[j].seen.status = "resolved"
        /\ Find(store, threads[i].id).status = "resolved"

\* ------------------------------------------------------- chat (ChatSpec)
\* C13: a non-2xx response is a failure for the caller: for POST /query, the
\* message appended for such a response is the error message of the catch,
\* not an assistant message built from the body.
C13_NonOkIsFailure ==
    (chatEvent.name = "reply" /\ ~chatEvent.reply.rejected /\ ~chatEvent.reply.ok) =>
        messages[Len(messages)].content = ErrorText

\* ------------------------------------------------------ polling (PollSpec)
\* The components that fetch the list on a timer.
Pollers == {"overview", "recent", "health", "metrics"}

\* C16: while the System Health page or the Metrics page is mounted its
\* interval timer is armed, so the list is fetched again at every interval;
\* no timer outlives its page; and what a mount effect or a timer tick
\* awaits is the list request and nothing else.
C16_DashboardsPoll ==
    /\ page = "health" => "health" \in timers
    /\ page = "metrics" => "metrics" \in timers
    /\ timers \subseteq (IF page = "dashboard" THEN {"overview", "recent"} ELSE {page})
    /\ \A i \in DOMAIN threads :
          threads[i].kind \in Pollers => threads[i].op = "getIncidents"

\* The code blocks rendered for the displayed messages.
RenderedBlocks ==
    UNION {{CodeBlocks(messages[m].content)[b] :
                b \in DOMAIN CodeBlocks(messages[m].content)} : m \in DOMAIN messages}

\* What is displayed for the code blocks and the popup: the Run button is on
\* the blocks tagged as commands and on no other; a popup that is showing was
\* opened for the command text of the block that was run, shows no link while
\* executing and the link for that command once completed.
C19_RunAffordance ==
    /\ \A block \in RenderedBlocks :
          RunShown(block) <=> (CodeContent(block) # <<>> /\ CodeContent(block)[1] = "command:")
    /\ executionPopup.show <=> popup # NoValue
    /\ executionPopup.show =>
          /\ RunShown(chatEvent.block)
          /\ executionPopup.command =
                 Trim(SubSeq(CodeContent(chatEvent.block), 2, Len(CodeContent(chatEvent.block))))
          /\ popup.status = "executing" => popup.splunkLink = <<>>
          /\ popup.status = "completed" =>
                 popup.splunkLink = SplunkLink(executionPopup.command)

\* C19: a rendered code block exposes Run iff it is tagged as a command;
\* Run starts the execution of exactly that block's command text, and the
\* execution ends, unless the popup is closed first, in the completed state
\* that displays the log-viewer link for that command.
C19_RunExecutes ==
    /\ []C19_RunAffordance
    /\ (executionPopup.show /\ popup.status = "executing")
          ~> (~executionPopup.show \/ popup.status = "completed")

\* C20: once Clear Chat is confirmed the displayed list is empty and what is
\* stored under 'chatMessages' holds no messages; the history is still empty
\* in storage when the page is left right after the clear, and the chat
\* mounted again right after it displays an empty history.
C20_ClearChatEmpties ==
    /\ [](chatEvent.name = "clear" =>
             /\ messages = <<>>
             /\ chatStorage # NoValue => Parse(chatStorage) = <<>>)
    /\ []((chatEvent.name = "unmount" /\ chatEvent.prev = "clear") =>
             (chatStorage # NoValue => Parse(chatStorage) = <<>>))
    /\ [][(/\ chatEvent.name = "unmount"
           /\ chatEvent.prev = "clear"
           /\ chatEvent'.name = "mount") => (chatMounted' /\ messages' = <<>>)]_vars

\* Clear Chat was confirmed while a question was waiting for its answer, so
\* the history held at least that question, and nothing is displayed or
\* stored any more.
C20_Witness ==
    /\ chatEvent.name = "clear"
    /\ isLoading
    /\ \E i \in DOMAIN queries : queries[i].live
    /\ messages = <<>>
    /\ chatStorage = Stringify(<<>>)

\* ------------------------------------------- Recent Activity (RecentSpec)
\* What Recent Activity displays for a fetched list: min(5, n) incidents of
\* the list of n, each once, newest first, and no incident left out newer
\* than one displayed.
ShowsNewest(shown, list) ==
    /\ Len(shown) = (IF Len(list) < 5 THEN Len(list) ELSE 5)
    /\ \A k \in DOMAIN shown : Find(list, Field(shown[k], "id", 0)) = shown[k]
    /\ \A j, k \in DOMAIN shown :
          j < k => /\ shown[j].id # shown[k].id
                   /\ shown[j].created_at >= shown[k].created_at
    /\ \A i \in DOMAIN list :
          list[i].id \notin Ids(shown) =>
             \A k \in DOMAIN shown : list[i].created_at <= shown[k].created_at

\* C21: after each fetch that got a list, Recent Activity displays the
\* min(5, n) newest incidents of the fetched list, newest first.
C21_RecentShowsNewest ==
    [][\A i \in Slots :
          (FetchIncidentsResume(i) /\ ~getIncidents(threads[i].resp).threw) =>
             ShowsNewest(raIncidents', getIncidents(threads[i].resp).value)]_vars

\* A list of six, not in order and with two incidents of the same age at
\* the cut, was fetched and five of them are displayed.
C21_Witness ==
    /\ Len(store) = 6
    /\ Len(raIncidents) = 5
    /\ store[1].created_at < store[6].created_at
    /\ \E i \in DOMAIN store :
          /\ store[i].id \notin Ids(raIncidents)
          /\ store[i].created_at = raIncidents[5].created_at

\* ------------------------- Recent Activity, calls in flight (RaceSpec)
\* C22: an incident whose close, issued from Recent Activity, has come back
\* successfully is displayed 'resolved' from then on, wherever the list
\* requests of the component are in their course.
C22_ClosedShownResolved ==
    \A k \in DOMAIN raIncidents :
        raIncidents[k].id \in closedIds => raIncidents[k].status = "resolved"

\* C23: every accepted submit is followed by exactly one appended assistant
\* message, the backend result or the fixed error text, and by the loading
\* flag back at false: the settling of the request the chat awaits appends
\* that one message to the list and resets the flag, a chat that is not
\* loading shows no question left without its answer, and, requests in
\* flight being settled at some time, a chat that is loading stops loading.
C23_SubmitAnswered ==
    /\ [][(/\ chatEvent'.name = "reply"
           /\ \E i \in DOMAIN queries : queries[i].live /\ queries' = Remove(queries, i)) =>
             /\ Len(messages') = Len(messages) + 1
             /\ SubSeq(messages', 1, Len(messages)) = messages
             /\ messages'[Len(messages')].type = "assistant"
             /\ messages'[Len(messages')].content \in
                   {ErrorText, Field(chatEvent'.reply.body, "result", Undefined)}
             /\ ~isLoading']_vars
    /\ []((chatMounted /\ ~isLoading /\ messages # <<>>) =>
             messages[Len(messages)].type = "assistant")
    /\ WF_vars(\E i \in Slots, reply \in QueryReplies : QueryReturns(i, reply)) =>
          (isLoading ~> ~isLoading)

\* C24: in the history displayed, every assistant message comes right after
\* a user message, the question it answers.
C24_AnswerFollowsQuestion ==
    \A i \in DOMAIN messages :
        messages[i].type = "assistant" =>
            /\ i > 1
            /\ messages[i - 1].type = "user"

\* ------------------------------------------------- dashboard pages (Spec)
\* The handler that has just ended is handleCreateIncident.
CreateEnded == calls # <<>> /\ calls[1].op = "createIncident"

\* C25: a Create Incident action that ends with the 'Failed to create
\* incident' alert has added no incident to the store (its create call
\* failed), and one that has added an incident ends with the page reloaded
\* (no alert, the dashboard components mounted afresh).
C25_CreateAlertMeansNotStored ==
    CreateEnded =>
        /\ alert = CreateFailedAlert => calls[1].threw
        /\ ~calls[1].threw =>
              /\ alert = ""
              /\ raIncidents = <<>>
              /\ ~isCreatingIncident

\* C26: when the Execute handler of the details page ends, the error toast
\* 'Failed to execute action' comes up only if the execute-action call
\* itself failed, and an execute-action call that returned success=true (the
\* only case in which the handler goes on to further calls) ends with the
\* success toast and isLoading false.
C26_ErrorToastMeansExecuteFailed ==
    [][(Len(calls') >= 1 /\ calls'[1].op = "executeAction") =>
          /\ (toast' = ErrorToast /\ toast # ErrorToast) => calls'[1].threw
          /\ (~calls'[1].threw /\ Len(calls') > 1) =>
                /\ Field(toast', "type", "") = "success"
                /\ ~detailsIsLoading']_vars

\* C27: at most one query of the chat is in flight at any time, and a
\* submit made while a query awaits its response, or with blank input,
\* appends no user message and sends no request.
C27_OneQueryInFlight ==
    /\ [](Len(queries) <= 1)
    /\ [][(chatMounted /\ (queries # <<>> \/ Trim(input) = <<>>)) =>
             /\ Len(queries') <= Len(queries)
             /\ ~(/\ Len(messages') > Len(messages)
                  /\ messages'[Len(messages')].type = "user")]_vars

\* ------------------------------------------- resolution rate (RateSpec)
\* C28: for the same incident list the dashboard overview and the Metrics
\* page report the same resolution rate, an integer percentage between 0 and
\* 100, the empty list included: the overview for the list its fetch got,
\* the Metrics page for the list it holds once it is no longer loading.
C28_SameResolutionRate ==
    /\ [][\A i \in Slots :
             (FetchMetricsResume(i) /\ ~getIncidents(threads[i].resp).threw) =>
                LET list == getIncidents(threads[i].resp).value
                IN  /\ overviewMetrics'.resolutionRate \in 0 .. 100
                    /\ Number(overviewMetrics'.resolutionRate) =
                          MetricsResolutionRate(list)]_vars
    /\ []((page = "metrics" /\ ~loading) =>
             /\ ~MetricsResolutionRate(metricsIncidents).nan
             /\ MetricsResolutionRate(metricsIncidents).value \in 0 .. 100
             /\ MetricsResolutionRate(metricsIncidents) =
                   Number(OverviewMetrics(metricsIncidents).resolutionRate))

\* C29: the ids of the messages of the history are pairwise distinct.
C29_MessageIdsDistinct ==
    \A i, j \in DOMAIN messages : i # j => messages[i].id # messages[j].id
====
